---- MODULE Spec2Model ----
(***************************************************************************)
(* Model of the DiscBurn job lifecycle: the manifest state machine         *)
(* (core/manifest), the polling burn executor (core/burn-executor) and the *)
(* signal channel it reads its cancel signals from (adapters/usb-signal).  *)
(***************************************************************************)
EXTENDS Integers, Sequences, FiniteSets, TLC

VARIABLES
    manifest,     \* the BurnManifest object under test
    clock,        \* wall clock read by new Date() in the manifest module
    lastCall,     \* outcome of the most recent transitionState call
    store,        \* the OneDrive folder DiscBurn/: pending, status, completed, archive, signals
    exec,         \* burn-executor module state: running, currentJob, completedJobs, failedJobs
    usb,          \* usb-signal module state: lastSignal, signalQueue, responseBuffer, rate tracker
    helm,         \* HELM switches
    act,          \* the activations of startExecutor / runSingleBurn and where each stands
    dateNow,      \* Date.now() of the executor process
    budget,       \* what may still happen: store faults, signal arrivals, poll ticks, processJob steps
    polled,       \* the descriptors parsed by the most recent poll, in store order
    lastStep,     \* the store writes of the most recent step and the activation that made them
    gate,         \* the most recent evaluation of the security gateway and its outcome
    auto,         \* the automation script (automate.ts): its module state and position
    peer,         \* burn-executor and usb-signal module state of a second executor process
    audit         \* core/admin: data/audit.json and the most recent logAudit / getAuditLog call

mvars == <<manifest, clock, lastCall>>
evars == <<store, exec, usb, helm, act, dateNow, budget, polled, lastStep, gate, auto,
           peer, audit>>
vars == <<manifest, clock, lastCall, store, exec, usb, helm, act, dateNow, budget, polled,
          lastStep, gate, auto, peer, audit>>

(***************************************************************************)
(* Bounds                                                                  *)
(***************************************************************************)
MaxCalls == 7
MaxActs == 2
MaxFaults == 1
MaxArrivals == 1
MaxTicks == 2
MaxOverlap == 3
MaxHelmChanges == 1
MaxChannelCalls == 4
MaxSubmissions == 2
MaxSends == 12

(***************************************************************************)
(* core/manifest: JobStatus, createManifest, transitionState               *)
(***************************************************************************)
JobStatus == {"created", "pending", "queued", "downloading", "burning",
              "verifying", "complete", "failed", "cancelled"}

Null == "null"
Undefined == "undefined"

\* (actor, reason) argument pairs: the defaults, and an explicit pair
CallArgs == {<<"system", Undefined>>, <<"executor", "Uploaded to cloud">>}
Priorities == {"low", "normal", "high", "urgent"}

createManifest(jobId, fileCount, priority, now) ==
    [ job       |-> [id |-> jobId, created |-> now, updated |-> now,
                     status |-> "created", priority |-> priority],
      lifecycle |-> [states |-> << [from |-> Null, to |-> "created",
                                    timestamp |-> now, actor |-> "system",
                                    reason |-> "Job initialized"] >>,
                     currentState |-> "created",
                     retryCount |-> 0,
                     maxRetries |-> 3],
      admin     |-> [auditLog |-> << [timestamp |-> now,
                                      action |-> "JOB_CREATED",
                                      actor |-> "system",
                                      details |-> [from |-> Undefined,
                                                   to |-> Undefined,
                                                   reason |-> Undefined,
                                                   fileCount |-> fileCount]] >>] ]

VALID_TRANSITIONS_RetryComplete ==
    [ created     |-> {"pending", "cancelled"},
      pending     |-> {"queued", "cancelled"},
      queued      |-> {"downloading", "cancelled"},
      downloading |-> {"burning", "failed", "cancelled"},
      burning     |-> {"verifying", "failed", "cancelled"},
      verifying   |-> {"complete", "failed"},
      complete    |-> {"pending"},
      failed      |-> {"pending"},
      cancelled   |-> {"pending"} ]

VALID_TRANSITIONS ==
    [ created     |-> {"pending", "cancelled"},
      pending     |-> {"queued", "cancelled"},
      queued      |-> {"downloading", "cancelled"},
      downloading |-> {"burning", "failed", "cancelled"},
      burning     |-> {"verifying", "failed", "cancelled"},
      verifying   |-> {"complete", "failed"},
      complete    |-> {},
      failed      |-> {"pending"},
      cancelled   |-> {"pending"} ]

isValidTransition_AnyCancel(from, to) ==
    IF from \in DOMAIN VALID_TRANSITIONS
    THEN to \in VALID_TRANSITIONS[from] \cup {"cancelled"}
    ELSE FALSE

isValidTransition(from, to) ==
    IF from \in DOMAIN VALID_TRANSITIONS
    THEN to \in VALID_TRANSITIONS[from]
    ELSE FALSE

\* manifest.lifecycle.states.push({from, to, timestamp, actor, reason})
pushTransition_Overwrite(m, previousState, newState, actor, reason, now) ==
    [m EXCEPT !.lifecycle.states =
        Append(SubSeq(@, 1, Len(@) - 1),
               [from |-> previousState, to |-> newState,
                timestamp |-> now, actor |-> actor, reason |-> reason])]

pushTransition_FromTarget(m, previousState, newState, actor, reason, now) ==
    [m EXCEPT !.lifecycle.states =
        Append(@, [from |-> newState, to |-> newState,
                   timestamp |-> now, actor |-> actor, reason |-> reason])]

pushTransition(m, previousState, newState, actor, reason, now) ==
    [m EXCEPT !.lifecycle.states =
        Append(@, [from |-> previousState, to |-> newState,
                   timestamp |-> now, actor |-> actor, reason |-> reason])]

\* currentState, the job.status mirror and job.updated
setCurrentState_NoCurrent(m, newState, now) ==
    [m EXCEPT !.job.status = newState,
              !.job.updated = now]

setCurrentState_NoMirror(m, newState, now) ==
    [m EXCEPT !.lifecycle.currentState = newState,
              !.job.updated = now]

setCurrentState(m, newState, now) ==
    [m EXCEPT !.lifecycle.currentState = newState,
              !.job.status = newState,
              !.job.updated = now]

\* manifest.admin.auditLog.push({timestamp, action, actor, details})
pushAudit(m, previousState, newState, actor, reason, now) ==
    [m EXCEPT !.admin.auditLog =
        Append(@, [timestamp |-> now,
                   action |-> "STATE_TRANSITION",
                   actor |-> actor,
                   details |-> [from |-> previousState,
                                to |-> newState,
                                reason |-> reason,
                                fileCount |-> Undefined]])]

\* The result is the pair (threw, manifest): the function mutates the
\* manifest it is handed and returns it, or throws before touching it.
transitionState_TouchFirst(m, newState, actor, reason, now) ==
    LET previousState == m.lifecycle.currentState IN
    IF ~isValidTransition(previousState, newState)
    THEN [threw |-> TRUE, manifest |-> [m EXCEPT !.job.updated = now]]
    ELSE [threw |-> FALSE,
          manifest |->
            pushAudit(
              setCurrentState(
                pushTransition(m, previousState, newState, actor, reason, now),
                newState, now),
              previousState, newState, actor, reason, now)]

transitionState(m, newState, actor, reason, now) ==
    LET previousState == m.lifecycle.currentState IN
    IF ~isValidTransition(previousState, newState)
    THEN [threw |-> TRUE, manifest |-> m]
    ELSE [threw |-> FALSE,
          manifest |->
            pushAudit(
              setCurrentState(
                pushTransition(m, previousState, newState, actor, reason, now),
                newState, now),
              previousState, newState, actor, reason, now)]

(***************************************************************************)
(* adapters/usb-signal: signal packets, checksum and the security helm     *)
(***************************************************************************)
\* Character codes of the strings that occur in payloads.
CharCodes ==
    "action" :> <<97, 99, 116, 105, 111, 110>> @@
    "jobId" :> <<106, 111, 98, 73, 100>> @@
    "source" :> <<115, 111, 117, 114, 99, 101>> @@
    "deviceId" :> <<100, 101, 118, 105, 99, 101, 73, 100>> @@
    "note" :> <<110, 111, 116, 101>> @@
    "cancel" :> <<99, 97, 110, 99, 101, 108>> @@
    "pause" :> <<112, 97, 117, 115, 101>> @@
    "job-1" :> <<106, 111, 98, 45, 49>> @@
    "job-2" :> <<106, 111, 98, 45, 50>> @@
    "dvd557s" :> <<100, 118, 100, 53, 53, 55, 115>> @@
    "HP-DVD557s" :> <<72, 80, 45, 68, 86, 68, 53, 53, 55, 115>> @@
    "phone-cli" :> <<112, 104, 111, 110, 101, 45, 99, 108, 105>> @@
    "ok" :> <<111, 107>> @@
    "<script>" :> <<60, 115, 99, 114, 105, 112, 116, 62>> @@
    "ws://hub" :> <<119, 115, 58, 47, 47, 104, 117, 98>>

\* A payload is an object with string values: the sequence of its
\* (key, value) pairs in insertion order.
payloadGet(payload, key) ==
    IF \E i \in 1..Len(payload) : payload[i][1] = key
    THEN payload[CHOOSE i \in 1..Len(payload) : payload[i][1] = key][2]
    ELSE Undefined

\* JSON.stringify of a payload: {"k":"v","k2":"v2"}
RECURSIVE stringifyPairs(_)
stringifyPairs(pairs) ==
    IF pairs = <<>> THEN <<>>
    ELSE <<34>> \o CharCodes[Head(pairs)[1]] \o <<34, 58, 34>>
           \o CharCodes[Head(pairs)[2]] \o <<34>>
           \o (IF Len(pairs) > 1 THEN <<44>> ELSE <<>>)
           \o stringifyPairs(Tail(pairs))

JSONstringify(payload) == <<123>> \o stringifyPairs(payload) \o <<125>>

\* hash = ((hash << 5) - hash) + code; hash = hash & hash: 31*hash + code in
\* 32-bit two's complement, kept as the two 16-bit halves <<high, low>>.
hashStep(hash, code) ==
    LET low == 31 * hash[2] + code IN
    << (31 * hash[1] + (low \div 65536)) % 65536, low % 65536 >>

\* for (let i = 0; i < str.length; i++): the loop from character i on, each
\* step computed once
RECURSIVE hashLoop(_, _, _)
hashLoop(hash, str, i) ==
    IF i > Len(str) THEN hash
    ELSE CHOOSE out \in { hashLoop(next, str, i + 1) :
                           next \in {hashStep(hash, str[i])} } : TRUE

hashFrom(hash, str) ==
    CHOOSE out \in { hashLoop(hash, s, 1) : s \in {str} } : TRUE

generateChecksum(data) == hashFrom(<<0, 0>>, JSONstringify(data))

ALLOWED_SOURCES == {"dvd557s", "HP-DVD557s", "dvd557s_driver"}

HELM_maxSignalAge == 30000
HELM_rateLimitPerMinute == 60
RateWindow == 60000

\* lower-case a character code (the patterns carry the i flag)
lower(c) == IF c >= 65 /\ c <= 90 THEN c + 32 ELSE c
lowerStr(str) == [i \in 1..Len(str) |-> lower(str[i])]

isSpace(c) == c \in {32, 9, 10, 13}
isWord(c) == \/ (c >= 48 /\ c <= 57) \/ (c >= 65 /\ c <= 90)
             \/ (c >= 97 /\ c <= 122) \/ c = 95

\* A pattern is a sequence of elements: a literal (lower-case codes),
\* "s*", "s+" (white space) or "w+" (word characters).
lit(codes)  == [kind |-> "lit", codes |-> codes]
spaces0     == [kind |-> "s*", codes |-> <<>>]
spaces1     == [kind |-> "s+", codes |-> <<>>]
words1      == [kind |-> "w+", codes |-> <<>>]

RECURSIVE skipWhile(_, _, _)
skipWhile(str, i, space) ==
    IF i <= Len(str) /\ (IF space THEN isSpace(str[i]) ELSE isWord(str[i]))
    THEN skipWhile(str, i + 1, space) ELSE i

\* Does the pattern match the string starting at position i ?  A quantified
\* element is tried at every length it can take (backtracking).
RECURSIVE matchAt(_, _, _)
matchAt(pat, str, i) ==
    IF pat = <<>> THEN TRUE
    ELSE LET e == Head(pat) IN
         CASE e.kind = "lit" ->
                /\ i + Len(e.codes) - 1 <= Len(str)
                /\ SubSeq(str, i, i + Len(e.codes) - 1) = e.codes
                /\ matchAt(Tail(pat), str, i + Len(e.codes))
           [] e.kind = "s*" ->
                \E j \in i..skipWhile(str, i, TRUE) : matchAt(Tail(pat), str, j)
           [] e.kind = "s+" ->
                \E j \in (i + 1)..skipWhile(str, i, TRUE) : matchAt(Tail(pat), str, j)
           [] e.kind = "w+" ->
                \E j \in (i + 1)..skipWhile(str, i, FALSE) : matchAt(Tail(pat), str, j)

patternTest(pat, str) ==
    LET l == lowerStr(str) IN \E i \in 1..(Len(l) + 1) : matchAt(pat, l, i)

HELM_blockedPatterns ==
    << <<lit(<<101, 118, 97, 108>>), spaces0, lit(<<40>>)>>,              \* eval\s*\(
       <<lit(<<102, 117, 110, 99, 116, 105, 111, 110>>), spaces0, lit(<<40>>)>>, \* Function\s*\(
       <<lit(<<60, 115, 99, 114, 105, 112, 116>>)>>,                      \* <script
       <<lit(<<106, 97, 118, 97, 115, 99, 114, 105, 112, 116, 58>>)>>,    \* javascript:
       <<lit(<<111, 110>>), words1, spaces0, lit(<<61>>)>>,               \* on\w+\s*=
       <<lit(<<119, 101, 98, 115, 111, 99, 107, 101, 116>>)>>,            \* websocket
       <<lit(<<119, 115, 58, 47, 47>>)>>,                                 \* ws://
       <<lit(<<119, 115, 115, 58, 47, 47>>)>>,                            \* wss://
       <<lit(<<110, 101, 119>>), spaces1, lit(<<119, 101, 98, 115, 111, 99, 107, 101, 116>>)>>, \* new\s+WebSocket
       <<lit(<<46, 99, 111, 110, 110, 101, 99, 116>>), spaces0, lit(<<40>>)>>, \* \.connect\s*\(
       <<lit(<<115, 111, 99, 107, 101, 116, 46, 105, 111>>)>> >>          \* socket\.io

\* /websocket|ws:\/\/|wss:\/\/|socket\.io/i
webSocketPatterns ==
    << <<lit(<<119, 101, 98, 115, 111, 99, 107, 101, 116>>)>>,
       <<lit(<<119, 115, 58, 47, 47>>)>>,
       <<lit(<<119, 115, 115, 58, 47, 47>>)>>,
       <<lit(<<115, 111, 99, 107, 101, 116, 46, 105, 111>>)>> >>

\* The signals a producer writes to signals/inbound.json.
InboundSources == {"dvd557s", "phone-cli"}
InboundPayloads ==
    { <<<<"action", "cancel">>, <<"jobId", j>>>> : j \in {"job-1", "job-2"} }

\* The payloads of the envelopes the gateway is exercised with: a plain
\* command, a script tag and a WebSocket address.
GatewayPayloads ==
    { <<<<"action", "cancel">>, <<"jobId", "job-1">>>>,
      <<<<"note", "<script>">>>>,
      <<<<"note", "ws://hub">>>> }

\* JSON.stringify, the checksum and the pattern tests of each payload,
\* computed once.
payloadFacts ==
    [ p \in InboundPayloads \cup GatewayPayloads |->
        [ checksum  |-> generateChecksum(p),
          injection |-> \E k \in 1..Len(HELM_blockedPatterns) :
                           patternTest(HELM_blockedPatterns[k], JSONstringify(p)),
          webSocket |-> \E k \in 1..Len(webSocketPatterns) :
                           patternTest(webSocketPatterns[k], JSONstringify(p)) ] ]

HELM_default ==
    [ active |-> TRUE, blockWebSockets |-> TRUE, blockScriptInjection |-> TRUE,
      onlyDVD557s |-> TRUE, maxSignalAge |-> HELM_maxSignalAge,
      rateLimitPerMinute |-> HELM_rateLimitPerMinute ]

\* a || b || '' on optional strings
orElse(a, b) == IF a # Undefined /\ a # "" THEN a ELSE b

\* An envelope read from signals/inbound.json may lack its payload field.
hasPayload(signal) == "payload" \in DOMAIN signal

\* signal.payload?.source
payloadProp(signal, key) ==
    IF hasPayload(signal) THEN payloadGet(signal.payload, key) ELSE Undefined

\* the pattern tests of JSON.stringify(signal.payload || {}) without payload
emptyFacts ==
    [ checksum  |-> <<0, 0>>,
      injection |-> \E k \in 1..Len(HELM_blockedPatterns) :
                       patternTest(HELM_blockedPatterns[k], <<123, 125>>),
      webSocket |-> \E k \in 1..Len(webSocketPatterns) :
                       patternTest(webSocketPatterns[k], <<123, 125>>) ]

\* the freshness test with the bound doubled
tooOld_Doubled(signal, helmCfg, now) ==
    now - signal.timestamp > 2 * helmCfg.maxSignalAge

\* Date.now() - signal.timestamp > HELM.maxSignalAge
tooOld(signal, helmCfg, now) ==
    now - signal.timestamp > helmCfg.maxSignalAge

\* the rate test with >= for >
rateExceeded_Inclusive(counted, helmCfg) ==
    counted.count >= helmCfg.rateLimitPerMinute

\* signalRateTracker.count > HELM.rateLimitPerMinute
rateExceeded(counted, helmCfg) ==
    counted.count > helmCfg.rateLimitPerMinute

\* the pattern loop over the WebSocket patterns only
injectionFound_WebSocketOnly(payload) == payloadFacts[payload].webSocket

\* for (const pattern of HELM.blockedPatterns) if (pattern.test(payloadStr))
injectionFound(payload) == payloadFacts[payload].injection

\* the same checks with the rate window renewed before the source test
validateSignalSecurity_WindowFirst(signal, helmCfg, tracker, now) ==
    LET source   == orElse(orElse(signal.source, payloadProp(signal, "source")), "")
        deviceId == orElse(orElse(signal.deviceId, payloadProp(signal, "deviceId")), "")
        windowed == IF now > tracker.resetTime
                    THEN [count |-> 0, resetTime |-> now + RateWindow]
                    ELSE tracker
        counted  == [windowed EXCEPT !.count = @ + 1]
        facts == IF hasPayload(signal) THEN payloadFacts[signal.payload] ELSE emptyFacts
    IN
    IF ~helmCfg.active
      THEN [allowed |-> TRUE, reason |-> Undefined, tracker |-> tracker, threw |-> FALSE]
    ELSE IF helmCfg.onlyDVD557s /\ source \notin ALLOWED_SOURCES
                                /\ deviceId \notin ALLOWED_SOURCES
      THEN [allowed |-> FALSE, reason |-> "BLOCKED: Source not DVD557s",
            tracker |-> windowed, threw |-> FALSE]
    ELSE IF tooOld(signal, helmCfg, now)
      THEN [allowed |-> FALSE, reason |-> "BLOCKED: Signal too old (replay attack prevention)",
            tracker |-> windowed, threw |-> FALSE]
    ELSE IF rateExceeded(counted, helmCfg)
      THEN [allowed |-> FALSE, reason |-> "BLOCKED: Rate limit exceeded",
            tracker |-> counted, threw |-> FALSE]
    ELSE IF helmCfg.blockScriptInjection /\ hasPayload(signal)
                                         /\ injectionFound(signal.payload)
      THEN [allowed |-> FALSE, reason |-> "BLOCKED: Script injection detected",
            tracker |-> counted, threw |-> FALSE]
    ELSE IF helmCfg.blockWebSockets /\ facts.webSocket
      THEN [allowed |-> FALSE, reason |-> "BLOCKED: WebSocket connection attempt",
            tracker |-> counted, threw |-> FALSE]
    ELSE IF ~hasPayload(signal)
      THEN [allowed |-> FALSE, reason |-> Undefined, tracker |-> counted, threw |-> TRUE]
    ELSE IF signal.checksum # facts.checksum
      THEN [allowed |-> FALSE, reason |-> "BLOCKED: Invalid checksum (tampering detected)",
            tracker |-> counted, threw |-> FALSE]
    ELSE [allowed |-> TRUE, reason |-> Undefined, tracker |-> counted, threw |-> FALSE]

\* the same checks with the rate counter advanced before the freshness test
validateSignalSecurity_CountFirst(signal, helmCfg, tracker, now) ==
    LET source   == orElse(orElse(signal.source, payloadProp(signal, "source")), "")
        deviceId == orElse(orElse(signal.deviceId, payloadProp(signal, "deviceId")), "")
        windowed == IF now > tracker.resetTime
                    THEN [count |-> 0, resetTime |-> now + RateWindow]
                    ELSE tracker
        counted  == [windowed EXCEPT !.count = @ + 1]
        facts == IF hasPayload(signal) THEN payloadFacts[signal.payload] ELSE emptyFacts
    IN
    IF ~helmCfg.active
      THEN [allowed |-> TRUE, reason |-> Undefined, tracker |-> tracker, threw |-> FALSE]
    ELSE IF helmCfg.onlyDVD557s /\ source \notin ALLOWED_SOURCES
                                /\ deviceId \notin ALLOWED_SOURCES
      THEN [allowed |-> FALSE, reason |-> "BLOCKED: Source not DVD557s",
            tracker |-> tracker, threw |-> FALSE]
    ELSE IF tooOld(signal, helmCfg, now)
      THEN [allowed |-> FALSE, reason |-> "BLOCKED: Signal too old (replay attack prevention)",
            tracker |-> counted, threw |-> FALSE]
    ELSE IF rateExceeded(counted, helmCfg)
      THEN [allowed |-> FALSE, reason |-> "BLOCKED: Rate limit exceeded",
            tracker |-> counted, threw |-> FALSE]
    ELSE IF helmCfg.blockScriptInjection /\ hasPayload(signal)
                                         /\ injectionFound(signal.payload)
      THEN [allowed |-> FALSE, reason |-> "BLOCKED: Script injection detected",
            tracker |-> counted, threw |-> FALSE]
    ELSE IF helmCfg.blockWebSockets /\ facts.webSocket
      THEN [allowed |-> FALSE, reason |-> "BLOCKED: WebSocket connection attempt",
            tracker |-> counted, threw |-> FALSE]
    ELSE IF ~hasPayload(signal)
      THEN [allowed |-> FALSE, reason |-> Undefined, tracker |-> counted, threw |-> TRUE]
    ELSE IF signal.checksum # facts.checksum
      THEN [allowed |-> FALSE, reason |-> "BLOCKED: Invalid checksum (tampering detected)",
            tracker |-> counted, threw |-> FALSE]
    ELSE [allowed |-> TRUE, reason |-> Undefined, tracker |-> counted, threw |-> FALSE]

\* The decision, and the rate tracker as the call leaves it.  Without a
\* payload generateChecksum reads the length of JSON.stringify(undefined),
\* which is undefined: the call throws a TypeError.
validateSignalSecurity(signal, helmCfg, tracker, now) ==
    LET source   == orElse(orElse(signal.source, payloadProp(signal, "source")), "")
        deviceId == orElse(orElse(signal.deviceId, payloadProp(signal, "deviceId")), "")
        windowed == IF now > tracker.resetTime
                    THEN [count |-> 0, resetTime |-> now + RateWindow]
                    ELSE tracker
        counted  == [windowed EXCEPT !.count = @ + 1]
        facts == IF hasPayload(signal) THEN payloadFacts[signal.payload] ELSE emptyFacts
    IN
    IF ~helmCfg.active
      THEN [allowed |-> TRUE, reason |-> Undefined, tracker |-> tracker, threw |-> FALSE]
    ELSE IF helmCfg.onlyDVD557s /\ source \notin ALLOWED_SOURCES
                                /\ deviceId \notin ALLOWED_SOURCES
      THEN [allowed |-> FALSE, reason |-> "BLOCKED: Source not DVD557s",
            tracker |-> tracker, threw |-> FALSE]
    ELSE IF tooOld(signal, helmCfg, now)
      THEN [allowed |-> FALSE, reason |-> "BLOCKED: Signal too old (replay attack prevention)",
            tracker |-> tracker, threw |-> FALSE]
    ELSE IF rateExceeded(counted, helmCfg)
      THEN [allowed |-> FALSE, reason |-> "BLOCKED: Rate limit exceeded",
            tracker |-> counted, threw |-> FALSE]
    ELSE IF helmCfg.blockScriptInjection /\ hasPayload(signal)
                                         /\ injectionFound(signal.payload)
      THEN [allowed |-> FALSE, reason |-> "BLOCKED: Script injection detected",
            tracker |-> counted, threw |-> FALSE]
    ELSE IF helmCfg.blockWebSockets /\ facts.webSocket
      THEN [allowed |-> FALSE, reason |-> "BLOCKED: WebSocket connection attempt",
            tracker |-> counted, threw |-> FALSE]
    ELSE IF ~hasPayload(signal)
      THEN [allowed |-> FALSE, reason |-> Undefined, tracker |-> counted, threw |-> TRUE]
    ELSE IF signal.checksum # facts.checksum
      THEN [allowed |-> FALSE, reason |-> "BLOCKED: Invalid checksum (tampering detected)",
            tracker |-> counted, threw |-> FALSE]
    ELSE [allowed |-> TRUE, reason |-> Undefined, tracker |-> counted, threw |-> FALSE]

\* The validation loop of receiveSignals over signals[lo..hi], in order: the
\* validated signals, the rate tracker after the last of them, and the
\* reason logSecurityEvent is given for each signal (none for an ALLOWED
\* event).  The range is walked in halves, the second half starting from the tracker the first
\* half leaves; each half is computed once.  The loop ends where
\* validateSignalSecurity throws.
RECURSIVE validateRange(_, _, _, _, _, _)
validateRange(signals, lo, hi, helmCfg, tracker, now) ==
    IF lo > hi THEN [validated |-> <<>>, tracker |-> tracker, log |-> <<>>,
                     threw |-> FALSE]
    ELSE IF lo = hi
      THEN CHOOSE r \in
             { [validated |-> IF security.allowed THEN <<signals[lo]>> ELSE <<>>,
                tracker |-> security.tracker,
                log |-> IF security.threw THEN <<>> ELSE <<security.reason>>,
                threw |-> security.threw] :
               security \in {validateSignalSecurity(signals[lo], helmCfg, tracker, now)} } :
             TRUE
    ELSE CHOOSE r \in
           UNION { IF first.threw THEN {first}
                   ELSE { [validated |-> first.validated \o second.validated,
                           tracker |-> second.tracker,
                           log |-> first.log \o second.log,
                           threw |-> second.threw] :
                          second \in {validateRange(signals, ((lo + hi) \div 2) + 1, hi,
                                                    helmCfg, first.tracker, now)} } :
                   first \in {validateRange(signals, lo, (lo + hi) \div 2,
                                            helmCfg, tracker, now)} } :
           TRUE

validateAll(signals, helmCfg, tracker, now, acc) ==
    CHOOSE out \in
      { [validated |-> acc \o r.validated, tracker |-> r.tracker, log |-> r.log,
         threw |-> r.threw] :
        r \in {validateRange(signals, 1, Len(signals), helmCfg, tracker, now)} } :
      TRUE

\* parsed.queue.filter(s => s.timestamp > state.lastSignal)
seqFilterNewer(queue, lastSignal) ==
    LET newer(s) == s.timestamp > lastSignal IN SelectSeq(queue, newer)

maxTimestamp(signals) ==
    CHOOSE m \in {signals[i].timestamp : i \in 1..Len(signals)} :
        \A i \in 1..Len(signals) : signals[i].timestamp <= m

\* receiveSignals on the adapter state u = [lastSignal, signalQueue,
\* responseBuffer, tracker]; data is the content of signals/inbound.json,
\* readable is false when the store read returns null.
receiveSignals(u, helmCfg, data, readable, now) ==
    IF ~readable THEN [signals |-> <<>>, usb |-> u, log |-> <<>>, caught |-> FALSE]
    ELSE CHOOSE out \in
           { IF r.threw
             THEN [signals |-> <<>>, log |-> r.log, caught |-> TRUE,
                   usb |-> [u EXCEPT !.tracker = r.tracker]]
             ELSE [signals |-> r.validated, log |-> r.log, caught |-> FALSE,
                   usb |-> [u EXCEPT
                         !.tracker = r.tracker,
                         !.responseBuffer = @ \o r.validated,
                         !.lastSignal = IF r.validated # <<>>
                                        THEN maxTimestamp(r.validated) ELSE @]] :
             r \in {validateAll(seqFilterNewer(data, u.lastSignal), helmCfg,
                                u.tracker, now, <<>>)} } :
           TRUE

\* createSignal for an inbound producer
inboundSignal(source, payload, timestamp) ==
    [ type |-> "command", direction |-> "inbound", timestamp |-> timestamp,
      payload |-> payload, checksum |-> payloadFacts[payload].checksum,
      source |-> source, deviceId |-> Undefined ]

(***************************************************************************)
(* core/burn-executor: the polling executor                                *)
(***************************************************************************)
NoFile == "absent"
NoJob == [jobId |-> Null, priority |-> Null, retryCount |-> 0]
\* commands/<jobId>-cancel.json not written
NoMarker == [jobId |-> Null, command |-> Null, timestamp |-> 0]
ActIds == 1..MaxActs

descriptor(jobId, priority) == [jobId |-> jobId, priority |-> priority, retryCount |-> 0]

priorityOrder == [urgent |-> 0, high |-> 1, normal |-> 2, low |-> 3]

\* (priorityOrder[p] || 2): 0 and undefined are falsy
sortKey(priority) ==
    IF priority \in DOMAIN priorityOrder /\ priorityOrder[priority] # 0
    THEN priorityOrder[priority]
    ELSE 2

\* a sort that places a job before the jobs that compare equal to it
RECURSIVE insertJob_Unstable(_, _)
insertJob_Unstable(sorted, job) ==
    IF sorted = <<>> THEN <<job>>
    ELSE IF sortKey(Head(sorted).priority) < sortKey(job.priority)
         THEN <<Head(sorted)>> \o insertJob_Unstable(Tail(sorted), job)
         ELSE <<job>> \o sorted

\* Array.prototype.sort with the comparator sortKey(a) - sortKey(b): stable
RECURSIVE insertJob(_, _)
insertJob(sorted, job) ==
    IF sorted = <<>> THEN <<job>>
    ELSE IF sortKey(Head(sorted).priority) <= sortKey(job.priority)
         THEN <<Head(sorted)>> \o insertJob(Tail(sorted), job)
         ELSE <<job>> \o sorted

RECURSIVE sortJobs(_)
sortJobs(jobs) ==
    IF jobs = <<>> THEN <<>>
    ELSE insertJob(sortJobs(SubSeq(jobs, 1, Len(jobs) - 1)), jobs[Len(jobs)])

\* a poll that passes over the jobs that have a status snapshot already
RECURSIVE readJobs_SkipClaimed(_, _, _)
readJobs_SkipClaimed(files, i, unreadable) ==
    IF i > Len(files) THEN <<>>
    ELSE (IF i \in unreadable \/ store.status[files[i].jobId].status # NoFile
          THEN <<>> ELSE <<files[i]>>)
         \o readJobs_SkipClaimed(files, i + 1, unreadable)

\* the descriptors of the listing that could be read, in listing order
RECURSIVE readJobs(_, _, _)
readJobs(files, i, unreadable) ==
    IF i > Len(files) THEN <<>>
    ELSE (IF i \in unreadable THEN <<>> ELSE <<files[i]>>)
         \o readJobs(files, i + 1, unreadable)

\* the listing as its files parse: the file at an index of nullAt holds the
\* JSON text null, which JSON.parse returns as null
parsedFiles(files, nullAt) ==
    [i \in 1..Len(files) |-> IF i \in nullAt THEN NoJob ELSE files[i]]

\* null among the parsed jobs: with two jobs or more the comparator of
\* jobs.sort throws a TypeError on a.priority; a single job is not compared
\* and the first j.jobId throws
holdsNull(jobs) == \E i \in 1..Len(jobs) : jobs[i] = NoJob

\* slice(0, n) in place of slice(-n)
lastN_FirstN(seq, n) == IF Len(seq) <= n THEN seq ELSE SubSeq(seq, 1, n)

\* slice(-n)
lastN(seq, n) == IF Len(seq) <= n THEN seq ELSE SubSeq(seq, Len(seq) - n + 1, Len(seq))

write(path, jobId, status) == [path |-> path, jobId |-> jobId, status |-> status]

\* sendCommand(command, params): the signal is queued, then the last ten
\* queued signals are uploaded to signals/outbound.json.
sendCommand(st, u, command, jobId, status, ok, time) ==
    LET signal == [action |-> command, jobId |-> jobId, status |-> status,
                   timestamp |-> time]
        queue == Append(u.signalQueue, signal)
    IN [ store |-> IF ok THEN [st EXCEPT !.outbound = lastN(queue, 10)] ELSE st,
         usb |-> [u EXCEPT !.signalQueue = queue],
         threw |-> ~ok,
         writes |-> IF ok THEN <<write("signals/outbound", jobId, status)>> ELSE <<>> ]

\* updateJobStatus: upload status/<jobId>.json, then sendCommand('status').
\* outcome: "ok", "fail1" (the status upload throws) or "fail2" (the signal
\* upload throws).
updateJobStatus(st, u, jobId, status, progress, outcome, time) ==
    IF outcome = "fail1"
    THEN [store |-> st, usb |-> u, threw |-> TRUE, writes |-> <<>>]
    ELSE LET st1 == [st EXCEPT !.status[jobId] =
                          [status |-> status, progress |-> progress]]
             sent == sendCommand(st1, u, "status", jobId, status, outcome = "ok", time)
         IN [sent EXCEPT !.writes = <<write("status", jobId, status)>> \o @]

\* syncToOneDriveAfterBurn: upload completed/<jobId>.json, then the archive copy.
syncToOneDriveAfterBurn(st, jobId, finalStatus, outcome) ==
    IF outcome = "fail1"
    THEN [store |-> st, threw |-> TRUE, writes |-> <<>>]
    ELSE LET st1 == [st EXCEPT !.completed[jobId] = finalStatus] IN
         IF outcome = "fail2"
         THEN [store |-> st1, threw |-> TRUE,
               writes |-> <<write("completed", jobId, finalStatus)>>]
         ELSE [store |-> [st1 EXCEPT !.archive[jobId] = finalStatus],
               threw |-> FALSE,
               writes |-> <<write("completed", jobId, finalStatus),
                            write("archive", jobId, finalStatus)>>]

\* deleteFromOneDrive(pending/<jobId>.json): never throws
RECURSIVE removeJob(_, _)
removeJob(files, jobId) ==
    IF files = <<>> THEN <<>>
    ELSE (IF Head(files).jobId = jobId THEN <<>> ELSE <<Head(files)>>)
         \o removeJob(Tail(files), jobId)

Outcomes == IF budget.faults > 0 THEN {"ok", "fail1", "fail2"} ELSE {"ok"}
OkOrFail == IF budget.faults > 0 THEN {TRUE, FALSE} ELSE {TRUE}
\* one more step of processJob, with or without a store fault
spend(outcome) ==
    [budget EXCEPT !.faults = IF outcome = "ok" THEN @ ELSE @ - 1,
                   !.steps = @ - 1]

\* the steps of a processJob run that completes: queued, burn, burning 10,
\* eight times (progress update, receive), verifying, complete, sync, delete
RunLength == 3 + 2 * 8 + 4

ProcessPcs == {"queued", "sendBurn", "burning10", "burnStep", "recv",
               "cancelStatus", "cancelSync", "verifying", "complete",
               "syncComplete", "delete", "failStatus", "failSync"}

goto(t, pc) == [act EXCEPT ![t].pc = pc]

\* processJob returned or threw: back in pollAndProcess (whose catch logs the
\* error) or in runSingleBurn (whose catch reports it).
finish(a, threw) ==
    IF a.kind = "loop"
    THEN [a EXCEPT !.pc = "sleep"]
    ELSE [a EXCEPT !.pc = "returned", !.success = ~threw]

\* processJob entered: state.currentJob = job
enter(a, job) ==
    [a EXCEPT !.pc = "queued", !.job = job, !.progress = 0, !.cancelSeen = FALSE]

StartExecutor(t) ==
    /\ act[t].pc = "idle"
    /\ exec' = [exec EXCEPT !.running = TRUE]
    /\ act' = [act EXCEPT ![t].kind = "loop", ![t].pc = "loopTop"]
    /\ lastStep' = [by |-> t, writes |-> <<>>]
    /\ UNCHANGED <<mvars, audit, peer, gate, auto, store, usb, helm, dateNow, budget, polled>>

StopExecutor ==
    /\ exec.running
    /\ exec' = [exec EXCEPT !.running = FALSE]
    /\ lastStep' = [by |-> 0, writes |-> <<>>]
    /\ UNCHANGED <<mvars, audit, peer, gate, auto, store, usb, helm, act, dateNow, budget, polled>>

\* while (state.running) { await pollAndProcess(); ... }
PollAndProcess(t) ==
    /\ act[t].pc = "loopTop"
    /\ lastStep' = [by |-> t, writes |-> <<>>]
    /\ UNCHANGED <<mvars, audit, peer, gate, auto, store, usb, helm, dateNow>>
    /\ IF ~exec.running
       THEN /\ act' = goto(t, "exited")
            /\ UNCHANGED <<exec, budget, polled>>
       ELSE /\ budget.ticks > 0
            /\ \E listed \in OkOrFail :
               \E bad \in {{}} \cup (IF listed /\ budget.faults > 0
                                     THEN {{i} : i \in 1..Len(store.pending)}
                                     ELSE {}),
                  kind \in {"unreadable", "null"} :
                  LET unreadable == IF kind = "unreadable" THEN bad ELSE {}
                      nullAt == IF kind = "null" THEN bad ELSE {}
                      jobs == IF listed
                              THEN readJobs(parsedFiles(store.pending, nullAt), 1,
                                            unreadable)
                              ELSE <<>>
                      sorted == sortJobs(jobs)
                  IN /\ bad = {} => kind = "unreadable"
                     /\ budget' = [budget EXCEPT
                                     !.ticks = @ - 1,
                                     !.faults = IF listed /\ bad = {}
                                                THEN @ ELSE @ - 1]
                     /\ polled' = [by |-> t, jobs |-> jobs]
                     \* either throw ends in the catch of pollAndProcess
                     /\ IF sorted # <<>> /\ ~holdsNull(jobs)
                        THEN /\ act' = [act EXCEPT ![t] = enter(@, sorted[1])]
                             /\ exec' = [exec EXCEPT !.currentJob = sorted[1].jobId]
                        ELSE /\ act' = goto(t, "sleep")
                             /\ UNCHANGED exec

\* await sleep(5000)
Sleep(t) ==
    /\ act[t].pc = "sleep"
    /\ dateNow' = dateNow + 5000
    /\ act' = goto(t, "loopTop")
    /\ lastStep' = [by |-> t, writes |-> <<>>]
    /\ UNCHANGED <<mvars, audit, peer, gate, auto, store, exec, usb, helm, budget, polled>>

RunSingleBurn(t, jobId) ==
    /\ act[t].pc = "idle"
    /\ lastStep' = [by |-> t, writes |-> <<>>]
    /\ UNCHANGED <<mvars, audit, peer, gate, auto, store, usb, helm, dateNow, polled>>
    /\ \E readable \in OkOrFail :
          LET found == {i \in 1..Len(store.pending) : store.pending[i].jobId = jobId} IN
          /\ budget' = [budget EXCEPT !.faults = IF readable THEN @ ELSE @ - 1]
          /\ IF readable /\ found # {}
             THEN /\ act' = [act EXCEPT ![t] =
                               enter([@ EXCEPT !.kind = "single"],
                                     store.pending[CHOOSE i \in found : TRUE])]
                  /\ exec' = [exec EXCEPT !.currentJob = jobId]
             ELSE /\ act' = [act EXCEPT ![t].kind = "single",
                                        ![t].pc = "returned",
                                        ![t].success = FALSE]
                  /\ UNCHANGED exec

\* One updateJobStatus call of processJob's try block.
StatusStep(t, pc, status, progress, delay, next, nextProgress) ==
    /\ act[t].pc = pc
    /\ budget.steps > 0
    /\ dateNow' = dateNow + delay
    /\ \E outcome \in Outcomes :
          LET r == updateJobStatus(store, usb, act[t].job.jobId, status,
                                   progress, outcome, dateNow') IN
          /\ store' = r.store
          /\ usb' = r.usb
          /\ budget' = spend(outcome)
          /\ lastStep' = [by |-> t, writes |-> r.writes]
          /\ act' = IF r.threw THEN goto(t, "failStatus")
                    ELSE [act EXCEPT ![t].pc = next, ![t].progress = nextProgress]
    /\ UNCHANGED <<mvars, audit, peer, gate, auto, exec, helm, polled>>

Queued(t) == StatusStep(t, "queued", "queued", 0, 0, "sendBurn", 0)

SendBurn(t) ==
    /\ act[t].pc = "sendBurn"
    /\ budget.steps > 0
    /\ \E ok \in OkOrFail :
          LET r == sendCommand(store, usb, "burn", act[t].job.jobId, Undefined, ok, dateNow) IN
          /\ store' = r.store
          /\ usb' = r.usb
          /\ budget' = spend(IF ok THEN "ok" ELSE "fail1")
          /\ lastStep' = [by |-> t, writes |-> r.writes]
          /\ act' = goto(t, IF r.threw THEN "failStatus" ELSE "burning10")
    /\ UNCHANGED <<mvars, audit, peer, gate, auto, exec, helm, dateNow, polled>>

\* updateJobStatus(burning, 10), then the loop starts at progress = 20
Burning10(t) == StatusStep(t, "burning10", "burning", 10, 0, "burnStep", 20)

\* for (progress = 20; progress <= 90; progress += 10): sleep(1000), update
BurnStep(t) ==
    StatusStep(t, "burnStep", "burning", act[t].progress, 1000, "recv", act[t].progress)

isCancelFor(signal, jobId) ==
    /\ payloadGet(signal.payload, "action") = "cancel"
    /\ payloadGet(signal.payload, "jobId") = jobId

\* receiveSignals, then signals.find(cancel for this job)
Receive(t) ==
    /\ act[t].pc = "recv"
    /\ budget.steps > 0
    /\ \E readable \in OkOrFail :
          LET r == receiveSignals(usb, helm, store.inbound, readable, dateNow)
              cancelSignal == \E i \in 1..Len(r.signals) :
                                 isCancelFor(r.signals[i], act[t].job.jobId)
          IN /\ usb' = r.usb
             /\ budget' = spend(IF readable THEN "ok" ELSE "fail1")
             /\ act' = [act EXCEPT ![t] =
                          IF cancelSignal
                          THEN [@ EXCEPT !.pc = "cancelStatus", !.cancelSeen = TRUE]
                          ELSE IF @.progress + 10 <= 90
                          THEN [@ EXCEPT !.pc = "burnStep", !.progress = @ + 10]
                          ELSE [@ EXCEPT !.pc = "verifying"]]
    /\ lastStep' = [by |-> t, writes |-> <<>>]
    /\ UNCHANGED <<mvars, audit, peer, gate, auto, store, exec, helm, dateNow, polled>>

CancelStatus(t) ==
    StatusStep(t, "cancelStatus", "cancelled", act[t].progress, 0, "cancelSync",
               act[t].progress)

\* One syncToOneDriveAfterBurn call.
SyncStep(t, pc, finalStatus) ==
    /\ act[t].pc = pc
    /\ budget.steps > 0
    /\ \E outcome \in Outcomes :
          LET r == syncToOneDriveAfterBurn(store, act[t].job.jobId, finalStatus, outcome) IN
          /\ store' = r.store
          /\ budget' = spend(outcome)
          /\ lastStep' = [by |-> t, writes |-> r.writes]
          /\ IF pc = "failSync"
             THEN \* inside the catch block: a throw leaves processJob
                  IF r.threw
                  THEN /\ act' = [act EXCEPT ![t] = finish(@, TRUE)]
                       /\ UNCHANGED exec
                  ELSE /\ act' = [act EXCEPT ![t] = finish(@, FALSE)]
                       /\ exec' = [exec EXCEPT
                                     !.failedJobs = Append(@, act[t].job.jobId),
                                     !.currentJob = Null]
             ELSE /\ UNCHANGED exec
                  /\ act' = IF r.threw THEN goto(t, "failStatus")
                            ELSE IF pc = "cancelSync"
                            THEN \* return: state.currentJob is left as it is
                                 [act EXCEPT ![t] = finish(@, FALSE)]
                            ELSE goto(t, "delete")
    /\ UNCHANGED <<mvars, audit, peer, gate, auto, usb, helm, dateNow, polled>>

\* the same call without the return that follows it
CancelSync_NoReturn(t) ==
    /\ act[t].pc = "cancelSync"
    /\ budget.steps > 0
    /\ \E outcome \in Outcomes :
          LET r == syncToOneDriveAfterBurn(store, act[t].job.jobId, "cancelled", outcome) IN
          /\ store' = r.store
          /\ budget' = spend(outcome)
          /\ lastStep' = [by |-> t, writes |-> r.writes]
          /\ act' = goto(t, IF r.threw THEN "failStatus" ELSE "burnStep")
    /\ UNCHANGED <<mvars, audit, peer, gate, auto, exec, usb, helm, dateNow, polled>>

CancelSync(t) == SyncStep(t, "cancelSync", "cancelled")

Verifying(t) ==
    StatusStep(t, "verifying", "verifying", 95, 0, "complete", act[t].progress)

\* await sleep(500); updateJobStatus(complete, 100)
Complete(t) ==
    StatusStep(t, "complete", "complete", 100, 500, "syncComplete", act[t].progress)

SyncComplete(t) == SyncStep(t, "syncComplete", "complete")

\* deleteFromOneDrive(pending/<jobId>.json); completedJobs.push; currentJob = null
DeletePending(t) ==
    /\ act[t].pc = "delete"
    /\ budget.steps > 0
    /\ \E deleted \in OkOrFail :
          /\ store' = IF deleted
                      THEN [store EXCEPT !.pending = removeJob(@, act[t].job.jobId)]
                      ELSE store
          /\ budget' = spend(IF deleted THEN "ok" ELSE "fail1")
          /\ lastStep' = [by |-> t,
                          writes |-> IF deleted
                                     THEN <<write("pending", act[t].job.jobId, "deleted")>>
                                     ELSE <<>>]
    /\ exec' = [exec EXCEPT !.completedJobs = Append(@, act[t].job.jobId),
                            !.currentJob = Null]
    /\ act' = [act EXCEPT ![t] = finish(@, FALSE)]
    /\ UNCHANGED <<mvars, audit, peer, gate, auto, usb, helm, dateNow, polled>>

\* catch (error): updateJobStatus(failed, 0, error.message)
FailStatus(t) ==
    /\ act[t].pc = "failStatus"
    /\ budget.steps > 0
    /\ \E outcome \in Outcomes :
          LET r == updateJobStatus(store, usb, act[t].job.jobId, "failed", 0,
                                   outcome, dateNow) IN
          /\ store' = r.store
          /\ usb' = r.usb
          /\ budget' = spend(outcome)
          /\ lastStep' = [by |-> t, writes |-> r.writes]
          /\ act' = IF r.threw THEN [act EXCEPT ![t] = finish(@, TRUE)]
                    ELSE goto(t, "failSync")
    /\ UNCHANGED <<mvars, audit, peer, gate, auto, exec, helm, dateNow, polled>>

FailSync(t) == SyncStep(t, "failSync", "failed")

\* The device side appends a signal to signals/inbound.json.
SignalArrives ==
    /\ budget.arrivals > 0
    /\ \E source \in InboundSources, payload \in InboundPayloads :
          store' = [store EXCEPT !.inbound =
                       Append(@, inboundSignal(source, payload, dateNow))]
    /\ budget' = [budget EXCEPT !.arrivals = @ - 1]
    /\ lastStep' = [by |-> 0, writes |-> <<>>]
    /\ UNCHANGED <<mvars, audit, peer, gate, auto, exec, usb, helm, act, dateNow, polled>>

JobIds == {"job-1", "job-2", "job-3", "job-4"}

\* the pending/ folder when the executor starts
SingleJob == << descriptor("job-1", "high") >>
PendingScenarios ==
    { << descriptor("job-1", "low"), descriptor("job-2", "urgent"),
         descriptor("job-3", "normal"), descriptor("job-4", "high") >>,
      SingleJob,
      << descriptor("job-1", "normal"), descriptor("job-2", "normal") >> }

StartTime == 100000

\* no gateway evaluation yet; the automation script not started
\* no second executor process
NoPeer == [proc |-> 0]
\* data/audit.json absent (read as {entries: []}), no call made
NoAudit == [entries |-> <<>>, n |-> 0, call |-> [kind |-> "none"]]
NoGate == [kind |-> "none"]
NoAuto == [pc |-> "unused"]

InitExecutor(scenarios, nActs, nFaults, nArrivals, nTicks, nSteps) ==
    /\ \E scenario \in scenarios :
          store = [ pending   |-> scenario,
                    status    |-> [j \in JobIds |-> [status |-> NoFile, progress |-> 0]],
                    completed |-> [j \in JobIds |-> NoFile],
                    archive   |-> [j \in JobIds |-> NoFile],
                    commands  |-> [j \in JobIds |-> NoMarker],
                    manifests |-> [j \in JobIds |-> NoFile],
                    outbound  |-> <<>>,
                    inbound   |-> <<>> ]
    /\ exec = [running |-> FALSE, currentJob |-> Null,
               completedJobs |-> <<>>, failedJobs |-> <<>>]
    /\ usb = [lastSignal |-> 0, signalQueue |-> <<>>, responseBuffer |-> <<>>,
              tracker |-> [count |-> 0, resetTime |-> StartTime + RateWindow]]
    /\ helm = HELM_default
    /\ act = [t \in ActIds |->
                [kind |-> "none", pc |-> IF t <= nActs THEN "idle" ELSE "unused",
                 job |-> NoJob, progress |-> 0, cancelSeen |-> FALSE,
                 success |-> FALSE]]
    /\ dateNow = StartTime
    /\ budget = [faults |-> nFaults, arrivals |-> nArrivals, ticks |-> nTicks,
                 steps |-> nSteps]
    /\ polled = [by |-> 0, jobs |-> <<>>]
    /\ lastStep = [by |-> 0, writes |-> <<>>]
    /\ peer = NoPeer
    /\ audit = NoAudit

NoCall == [n |-> 0, from |-> Null, to |-> Null, threw |-> FALSE]

ManifestIdle ==
    /\ manifest = createManifest("job-1", 1, "normal", 0)
    /\ clock = 1
    /\ lastCall = NoCall

GatewayIdle == gate = NoGate
AutomationIdle == auto = NoAuto

NextExecutor ==
    \/ \E t \in ActIds : StartExecutor(t)
    \/ StopExecutor
    \/ \E t \in ActIds : PollAndProcess(t)
    \/ \E t \in ActIds : Sleep(t)
    \/ \E t \in ActIds, jobId \in JobIds : RunSingleBurn(t, jobId)
    \/ \E t \in ActIds : Queued(t)
    \/ \E t \in ActIds : SendBurn(t)
    \/ \E t \in ActIds : Burning10(t)
    \/ \E t \in ActIds : BurnStep(t)
    \/ \E t \in ActIds : Receive(t)
    \/ \E t \in ActIds : CancelStatus(t)
    \/ \E t \in ActIds : CancelSync(t)
    \/ \E t \in ActIds : Verifying(t)
    \/ \E t \in ActIds : Complete(t)
    \/ \E t \in ActIds : SyncComplete(t)
    \/ \E t \in ActIds : DeletePending(t)
    \/ \E t \in ActIds : FailStatus(t)
    \/ \E t \in ActIds : FailSync(t)
    \/ SignalArrives

\* One executor process running a single activation: either the polling
\* loop of startExecutor or one runSingleBurn call.
Init ==
    /\ InitExecutor(PendingScenarios, 1, MaxFaults, MaxArrivals, MaxTicks,
                    MaxTicks * RunLength)
    /\ ManifestIdle
    /\ GatewayIdle
    /\ AutomationIdle

Spec == Init /\ [][NextExecutor]_vars

\* One executor process in which startExecutor, stopExecutor and
\* runSingleBurn are called at any time, MaxActs activations in all, with a
\* store that does not fail and no inbound signals.
NextInterleaved ==
    \/ \E t \in ActIds : StartExecutor(t)
    \/ StopExecutor
    \/ \E t \in ActIds : PollAndProcess(t)
    \/ \E t \in ActIds : Sleep(t)
    \/ \E t \in ActIds, jobId \in JobIds : RunSingleBurn(t, jobId)
    \/ \E t \in ActIds : Queued(t)
    \/ \E t \in ActIds : SendBurn(t)
    \/ \E t \in ActIds : Burning10(t)
    \/ \E t \in ActIds : BurnStep(t)
    \/ \E t \in ActIds : Receive(t)
    \/ \E t \in ActIds : Verifying(t)
    \/ \E t \in ActIds : Complete(t)
    \/ \E t \in ActIds : SyncComplete(t)
    \/ \E t \in ActIds : DeletePending(t)

InitInterleaved ==
    /\ InitExecutor({SingleJob}, MaxActs, 0, 0, 1, RunLength + MaxOverlap)
    /\ ManifestIdle
    /\ GatewayIdle
    /\ AutomationIdle

SpecInterleaved == InitInterleaved /\ [][NextInterleaved]_vars

(***************************************************************************)
(* Two executor processes polling one store.  Activation p is the polling  *)
(* loop of process p; exec and usb hold the module state of the process    *)
(* that takes the next step, peer holds that of the other one.             *)
(***************************************************************************)
\* the process whose module state is in exec and usb
Running(p) == IF peer.proc = 0 THEN p = 1 ELSE p # peer.proc

\* a second executor process is launched: its modules are initialised
LaunchExecutor ==
    /\ peer.proc = 0
    /\ peer' = [proc |-> 2,
                exec |-> [running |-> FALSE, currentJob |-> Null,
                          completedJobs |-> <<>>, failedJobs |-> <<>>],
                usb |-> [lastSignal |-> 0, signalQueue |-> <<>>,
                         responseBuffer |-> <<>>,
                         tracker |-> [count |-> 0, resetTime |-> dateNow + RateWindow]]]
    /\ lastStep' = [by |-> 0, writes |-> <<>>]
    /\ UNCHANGED <<mvars, audit, gate, auto, store, exec, usb, helm, act, dateNow, budget,
                   polled>>

\* the other process takes the next steps
SwitchProcess ==
    /\ peer.proc # 0
    /\ exec' = peer.exec
    /\ usb' = peer.usb
    /\ peer' = [proc |-> 3 - peer.proc, exec |-> exec, usb |-> usb]
    /\ UNCHANGED <<mvars, audit, gate, auto, store, helm, act, dateNow, budget, polled,
                   lastStep>>

InitPair ==
    /\ InitExecutor({SingleJob}, MaxActs, 0, 0, MaxTicks, RunLength)
    /\ ManifestIdle
    /\ GatewayIdle
    /\ AutomationIdle

NextPair ==
    \/ LaunchExecutor
    \/ SwitchProcess
    \/ \E p \in ActIds : Running(p) /\ StartExecutor(p)
    \/ \E p \in ActIds : Running(p) /\ PollAndProcess(p)
    \/ \E p \in ActIds : Running(p) /\ Sleep(p)
    \/ \E p \in ActIds : Running(p) /\ Queued(p)
    \/ \E p \in ActIds : Running(p) /\ SendBurn(p)
    \/ \E p \in ActIds : Running(p) /\ Burning10(p)
    \/ \E p \in ActIds : Running(p) /\ BurnStep(p)
    \/ \E p \in ActIds : Running(p) /\ Receive(p)
    \/ \E p \in ActIds : Running(p) /\ Verifying(p)
    \/ \E p \in ActIds : Running(p) /\ Complete(p)
    \/ \E p \in ActIds : Running(p) /\ SyncComplete(p)
    \/ \E p \in ActIds : Running(p) /\ DeletePending(p)

SpecPair == InitPair /\ [][NextPair]_vars

(***************************************************************************)
(* The initiator's cancel command (core/executor: executeCancel), issued   *)
(* from the command line while the executor runs.                          *)
(***************************************************************************)
\* executeCancel(target): sendCancel(target) = sendCommand('cancel', {jobId})
\* queues the signal in the initiator's adapter and uploads
\* signals/outbound.json; then commands/<jobId>-cancel.json is uploaded.
\* The initiator cancels a job at most once.
ExecuteCancel(jobId) ==
    /\ \E i \in 1..Len(store.pending) : store.pending[i].jobId = jobId
    /\ store.commands[jobId] = NoMarker
    /\ \E outcome \in Outcomes :
          LET sent == sendCommand(store, [usb EXCEPT !.signalQueue = <<>>], "cancel",
                                  jobId, Undefined, outcome # "fail1", dateNow)
              marker == [jobId |-> jobId, command |-> "cancel", timestamp |-> dateNow]
          IN /\ store' = IF outcome = "ok"
                         THEN [sent.store EXCEPT !.commands[jobId] = marker]
                         ELSE sent.store
             /\ budget' = [budget EXCEPT !.faults = IF outcome = "ok" THEN @ ELSE @ - 1]
             /\ lastStep' = [by |-> 0,
                             writes |-> sent.writes \o
                                        (IF outcome = "ok"
                                         THEN <<write("commands", jobId, "cancel")>>
                                         ELSE <<>>)]
    /\ UNCHANGED <<mvars, audit, peer, gate, auto, exec, usb, helm, act, dateNow, polled>>

InitCli ==
    /\ InitExecutor({SingleJob}, 1, 0, MaxArrivals, 1, RunLength)
    /\ ManifestIdle
    /\ GatewayIdle
    /\ AutomationIdle

\* The polling executor with one job, a device that may write inbound
\* signals, and an initiator that may run `cancel <jobId>` at any moment.
NextCli ==
    \/ \E t \in ActIds : StartExecutor(t)
    \/ \E t \in ActIds : PollAndProcess(t)
    \/ \E t \in ActIds : Sleep(t)
    \/ \E t \in ActIds : Queued(t)
    \/ \E t \in ActIds : SendBurn(t)
    \/ \E t \in ActIds : Burning10(t)
    \/ \E t \in ActIds : BurnStep(t)
    \/ \E t \in ActIds : Receive(t)
    \/ \E t \in ActIds : CancelStatus(t)
    \/ \E t \in ActIds : CancelSync(t)
    \/ \E t \in ActIds : Verifying(t)
    \/ \E t \in ActIds : Complete(t)
    \/ \E t \in ActIds : SyncComplete(t)
    \/ \E t \in ActIds : DeletePending(t)
    \/ SignalArrives
    \/ \E jobId \in JobIds : ExecuteCancel(jobId)

SpecCli == InitCli /\ [][NextCli]_vars

(***************************************************************************)
(* The polling executor against a store that keeps failing: every run of   *)
(* the job fails, and the loop polls again.                                *)
(***************************************************************************)
\* config.maxRetries
MaxRetries == 3

InitRetry ==
    /\ InitExecutor({SingleJob}, 1, MaxRetries + 1, 0, MaxRetries + 2,
                    3 * (MaxRetries + 1) + MaxOverlap)
    /\ ManifestIdle
    /\ GatewayIdle
    /\ AutomationIdle

NextRetry ==
    \/ \E t \in ActIds : StartExecutor(t)
    \/ \E t \in ActIds : PollAndProcess(t)
    \/ \E t \in ActIds : Sleep(t)
    \/ \E t \in ActIds : Queued(t)
    \/ \E t \in ActIds : SendBurn(t)
    \/ \E t \in ActIds : Burning10(t)
    \/ \E t \in ActIds : BurnStep(t)
    \/ \E t \in ActIds : Receive(t)
    \/ \E t \in ActIds : FailStatus(t)
    \/ \E t \in ActIds : FailSync(t)

SpecRetry == InitRetry /\ [][NextRetry]_vars

(***************************************************************************)
(* automate.ts: the automation script, a second polling executor that      *)
(* runs as a process of its own                                            *)
(***************************************************************************)
\* executeBurn: const phases
phases ==
    << [name |-> "Preparing", progress |-> 10],
       [name |-> "Writing lead-in", progress |-> 20],
       [name |-> "Burning data", progress |-> 50],
       [name |-> "Writing lead-out", progress |-> 80],
       [name |-> "Verifying", progress |-> 95] >>

\* updateStatus(jobId, status, progress): one upload to status/<jobId>.json
updateStatus(st, jobId, status, progress, ok) ==
    IF ok THEN [st EXCEPT !.status[jobId] = [status |-> status, progress |-> progress]]
    ELSE st

\* syncCompletion(jobId, success): upload completed/, upload archive/, then
\* deleteFromOneDrive(pending/), whose result is ignored
syncCompletion(st, jobId, success, outcome, deleted) ==
    LET status == IF success THEN "complete" ELSE "failed"
        st1 == [st EXCEPT !.completed[jobId] = status]
        st2 == [st1 EXCEPT !.archive[jobId] = status]
    IN IF outcome = "fail1" THEN [store |-> st, threw |-> TRUE]
       ELSE IF outcome = "fail2" THEN [store |-> st1, threw |-> TRUE]
       ELSE [store |-> IF deleted
                       THEN [st2 EXCEPT !.pending = removeJob(@, jobId)]
                       ELSE st2,
             threw |-> FALSE]

\* where executeBurn and the bookkeeping after it stand
AutoJobPcs == {"burnStart", "phase", "phaseSleep", "complete", "burnFailed", "sync"}

AutoStart ==
    [ pc |-> "idle", running |-> FALSE, processedJobs |-> {},
      failedJobs |-> [j \in JobIds |-> 0], job |-> NoJob, phase |-> 0,
      success |-> FALSE, exitAt |-> 0, interrupted |-> Null ]

\* a timer may run out only before process.exit: a sleep that would end
\* after the exit timer does not end
MayElapse(delay) == auto.exitAt = 0 \/ dateNow + delay <= auto.exitAt

autoVarsIdle == <<mvars, audit, peer, gate, exec, usb, helm, act, polled, lastStep>>

\* runAutomation(): running = true, then the while loop
RunAutomation ==
    /\ auto.pc = "idle"
    /\ auto' = [auto EXCEPT !.running = TRUE, !.pc = "loopTop"]
    /\ UNCHANGED <<autoVarsIdle, store, dateNow, budget>>

\* while (running) { processNextJob() ... }: fetchPendingJobs, the filter,
\* and the choice of pending[0]
ProcessNextJob ==
    /\ auto.pc = "loopTop"
    /\ UNCHANGED <<autoVarsIdle, store, dateNow>>
    /\ IF ~auto.running
       THEN /\ auto' = [auto EXCEPT !.pc = "ended"]
            /\ UNCHANGED budget
       ELSE /\ budget.ticks > 0
            /\ \E listed \in OkOrFail :
               \E bad \in {{}} \cup (IF listed /\ budget.faults > 0
                                     THEN {{i} : i \in 1..Len(store.pending)}
                                     ELSE {}),
                  kind \in {"unreadable", "null"} :
                  LET unreadable == IF kind = "unreadable" THEN bad ELSE {}
                      nullAt == IF kind = "null" THEN bad ELSE {}
                      jobs == IF listed
                              THEN readJobs(parsedFiles(store.pending, nullAt), 1,
                                            unreadable)
                              ELSE <<>>
                      \* a throw of the sort is caught in fetchPendingJobs,
                      \* which returns []; a throw of the filter is caught
                      \* nowhere
                      sorted == IF holdsNull(jobs) THEN <<>> ELSE sortJobs(jobs)
                      crash == holdsNull(jobs) /\ Len(jobs) = 1
                      pending == SelectSeq(sorted, LAMBDA j :
                                     /\ j.jobId \notin auto.processedJobs
                                     /\ auto.failedJobs[j.jobId] < MaxRetries)
                  IN /\ bad = {} => kind = "unreadable"
                     /\ budget' = [budget EXCEPT
                                     !.ticks = @ - 1,
                                     !.faults = IF listed /\ bad = {}
                                                THEN @ ELSE @ - 1]
                     /\ auto' = IF crash THEN [auto EXCEPT !.pc = "crashed"]
                                ELSE IF pending = <<>>
                                THEN [auto EXCEPT !.pc = "sleep"]
                                ELSE [auto EXCEPT !.pc = "burnStart", !.job = pending[1],
                                                  !.phase = 0]

\* One updateStatus call inside executeBurn's try block; a throw enters the
\* catch block.
AutoStatus(pc, status, progress, next) ==
    /\ auto.pc = pc
    /\ \E ok \in OkOrFail :
          /\ store' = updateStatus(store, auto.job.jobId, status, progress, ok)
          /\ budget' = [budget EXCEPT !.faults = IF ok THEN @ ELSE @ - 1]
          /\ auto' = IF ok THEN next ELSE [auto EXCEPT !.pc = "burnFailed"]
    /\ UNCHANGED <<autoVarsIdle, dateNow>>

\* updateStatus(job.jobId, 'burning', 0)
AutoBurnStart ==
    AutoStatus("burnStart", "burning", 0, [auto EXCEPT !.pc = "phase", !.phase = 1])

\* for (const phase of phases): updateStatus(phase.name, phase.progress)
AutoPhase ==
    /\ auto.phase \in 1..Len(phases)
    /\ AutoStatus("phase", phases[auto.phase].name, phases[auto.phase].progress,
                  [auto EXCEPT !.pc = "phaseSleep"])

\* await sleep(2000), then the next phase or the end of the loop
AutoPhaseSleep ==
    /\ auto.pc = "phaseSleep"
    /\ MayElapse(2000)
    /\ dateNow' = dateNow + 2000
    /\ auto' = IF auto.phase < Len(phases)
               THEN [auto EXCEPT !.pc = "phase", !.phase = @ + 1]
               ELSE [auto EXCEPT !.pc = "complete"]
    /\ UNCHANGED <<autoVarsIdle, store, budget>>

\* updateStatus(complete, 100); return true; processedJobs.push(job.jobId)
AutoComplete ==
    AutoStatus("complete", "complete", 100,
               [auto EXCEPT !.pc = "sync", !.success = TRUE,
                            !.processedJobs = @ \cup {auto.job.jobId}])

\* catch: updateStatus(failed, 0, error.message); return false; then
\* processNextJob counts the retry.  A throw of this updateStatus is caught
\* nowhere: runAutomation rejects and its .catch calls process.exit(1).
AutoBurnFailed ==
    /\ auto.pc = "burnFailed"
    /\ \E ok \in OkOrFail :
          LET retries == auto.failedJobs[auto.job.jobId] + 1 IN
          /\ store' = updateStatus(store, auto.job.jobId, "failed", 0, ok)
          /\ budget' = [budget EXCEPT !.faults = IF ok THEN @ ELSE @ - 1]
          /\ auto' = IF ~ok THEN [auto EXCEPT !.pc = "crashed"]
                     ELSE [auto EXCEPT !.failedJobs[auto.job.jobId] = retries,
                                       !.success = FALSE,
                                       !.pc = IF retries >= MaxRetries
                                              THEN "sync" ELSE "sleep"]
    /\ UNCHANGED <<autoVarsIdle, dateNow>>

\* syncCompletion(job.jobId, success); a throw is caught nowhere
AutoSyncCompletion ==
    /\ auto.pc = "sync"
    /\ \E outcome \in Outcomes, deleted \in OkOrFail :
          LET r == syncCompletion(store, auto.job.jobId, auto.success, outcome, deleted) IN
          /\ outcome # "ok" => deleted
          /\ store' = r.store
          /\ budget' = [budget EXCEPT
                          !.faults = IF outcome = "ok" /\ deleted THEN @ ELSE @ - 1]
          /\ auto' = [auto EXCEPT !.pc = IF r.threw THEN "crashed" ELSE "sleep"]
    /\ UNCHANGED <<autoVarsIdle, dateNow>>

\* await sleep(config.pollInterval)
AutoSleep ==
    /\ auto.pc = "sleep"
    /\ MayElapse(5000)
    /\ dateNow' = dateNow + 5000
    /\ auto' = [auto EXCEPT !.pc = "loopTop"]
    /\ UNCHANGED <<autoVarsIdle, store, budget>>

\* process.on('SIGINT'): running = false; setTimeout(process.exit(0), 1000)
Sigint ==
    /\ auto.pc \notin {"unused", "idle", "exited", "crashed"}
    /\ auto.exitAt = 0
    /\ auto' = [auto EXCEPT !.running = FALSE, !.exitAt = dateNow + 1000]
    /\ UNCHANGED <<autoVarsIdle, store, dateNow, budget>>

\* the exit timer runs out: process.exit(0), wherever the script stands.
\* Store calls take no time here, so the timer runs out while the script
\* waits in a sleep that outlasts it, or after the loop has ended.
ProcessExit ==
    /\ auto.exitAt # 0
    /\ \/ auto.pc = "phaseSleep" /\ ~MayElapse(2000)
       \/ auto.pc = "sleep" /\ ~MayElapse(5000)
       \/ auto.pc = "ended"
    /\ dateNow' = IF dateNow < auto.exitAt THEN auto.exitAt ELSE dateNow
    /\ auto' = [auto EXCEPT !.pc = "exited", !.interrupted = auto.pc]
    /\ UNCHANGED <<autoVarsIdle, store, budget>>

InitAutomation ==
    /\ InitExecutor({SingleJob}, 0, MaxRetries, 0, MaxRetries + 1, 0)
    /\ ManifestIdle
    /\ GatewayIdle
    /\ auto = AutoStart

NextAutomation ==
    \/ RunAutomation
    \/ ProcessNextJob
    \/ AutoBurnStart
    \/ AutoPhase
    \/ AutoPhaseSleep
    \/ AutoComplete
    \/ AutoBurnFailed
    \/ AutoSyncCompletion
    \/ AutoSleep
    \/ Sigint
    \/ ProcessExit

SpecAutomation == InitAutomation /\ [][NextAutomation]_vars

(***************************************************************************)
(* The inbound gateway on its own: producers write envelopes to            *)
(* signals/inbound.json, receiveSignals validates them, time passes, and   *)
(* an operator changes the policy through the HELM controls.               *)
(***************************************************************************)
\* Ages of the envelopes a producer writes: new, at the freshness bound,
\* just past it, and past twice the bound.
GatewayAges ==
    {0, HELM_maxSignalAge, HELM_maxSignalAge + 1, 2 * HELM_maxSignalAge + 1}

\* An envelope as a producer writes it; a tampered one carries a checksum
\* that is not the checksum of its payload.
gatewaySignal(source, payload, timestamp, intact) ==
    [ type |-> "command", direction |-> "inbound", timestamp |-> timestamp,
      payload |-> payload,
      checksum |-> IF intact THEN payloadFacts[payload].checksum ELSE <<0, 0>>,
      source |-> source, deviceId |-> Undefined ]

GatewaySignals(now) ==
    { gatewaySignal(source, payload, now - age, intact) :
        source \in InboundSources, payload \in GatewayPayloads,
        age \in GatewayAges, intact \in BOOLEAN }

\* the envelope every check passes
goodSignal(now) ==
    gatewaySignal("dvd557s", <<<<"action", "cancel">>, <<"jobId", "job-1">>>>, now, TRUE)

\* an inbound file that opens with n copies of the good envelope
burst(n, now) == [i \in 1..n |-> goodSignal(now)]

\* The files a producer leaves in signals/inbound.json: one envelope, alone
\* or behind a burst as long as the rate limit.
InboundFiles(now) ==
    { burst(n, now) \o <<signal>> :
        n \in {0, HELM_rateLimitPerMinute},
        signal \in GatewaySignals(now) }

gatewayVarsIdle == <<mvars, audit, peer, store, exec, act, polled, lastStep, auto>>

\* receiveSignals on an inbound file.  gate keeps what the call did with the
\* last envelope of the file: whether the filter on lastSignal let it reach
\* validateSignalSecurity, the decision and the reason logged for it, whether
\* it is among the signals returned and among those pushed to
\* responseBuffer; and of the whole call: the length of the burst before the
\* envelope, lastSignal and the rate tracker before the call, the tracker
\* after it, and the number of signals returned.
GatewayReceive ==
    /\ budget.arrivals > 0
    /\ \E data \in InboundFiles(dateNow) :
       \E r \in {receiveSignals(usb, helm, data, TRUE, dateNow)} :
          LET signal == data[Len(data)]
              evaluated == signal.timestamp > usb.lastSignal
              reason == IF evaluated THEN r.log[Len(r.log)] ELSE Undefined
              pushed == SubSeq(r.usb.responseBuffer, Len(usb.responseBuffer) + 1,
                               Len(r.usb.responseBuffer))
          IN
          /\ usb' = r.usb
          /\ gate' = [kind |-> "receive", signal |-> signal,
                      age |-> dateNow - signal.timestamp, now |-> dateNow,
                      helm |-> helm, last |-> usb.lastSignal,
                      front |-> Len(data) - 1,
                      evaluated |-> evaluated,
                      allowed |-> evaluated /\ reason = Undefined,
                      reason |-> reason,
                      before |-> usb.tracker, after |-> r.usb.tracker,
                      returned |-> \E i \in 1..Len(r.signals) : r.signals[i] = signal,
                      buffered |-> \E i \in 1..Len(pushed) : pushed[i] = signal,
                      count |-> Len(r.signals)]
    /\ budget' = [budget EXCEPT !.arrivals = @ - 1]
    /\ UNCHANGED <<gatewayVarsIdle, helm, dateNow>>

\* time passes: up to the freshness bound, or just past it
GatewayTick ==
    /\ budget.ticks > 0
    /\ \E delay \in {HELM_maxSignalAge, HELM_maxSignalAge + 1} :
          dateNow' = dateNow + delay
    /\ budget' = [budget EXCEPT !.ticks = @ - 1]
    /\ UNCHANGED <<gatewayVarsIdle, usb, helm, gate>>

\* the values an operator gives an option
HelmValues(option) ==
    CASE option = "maxSignalAge" -> {HELM_maxSignalAge, 2 * HELM_maxSignalAge}
      [] option = "rateLimitPerMinute" -> {HELM_rateLimitPerMinute, 2}
      [] OTHER -> BOOLEAN

\* budget.steps counts the calls of the HELM controls still to come
ActivateHelm ==
    /\ budget.steps > 0
    /\ helm' = [helm EXCEPT !.active = TRUE]
    /\ budget' = [budget EXCEPT !.steps = @ - 1]
    /\ UNCHANGED <<gatewayVarsIdle, usb, gate, dateNow>>

DeactivateHelm ==
    /\ budget.steps > 0
    /\ helm' = [helm EXCEPT !.active = FALSE]
    /\ budget' = [budget EXCEPT !.steps = @ - 1]
    /\ UNCHANGED <<gatewayVarsIdle, usb, gate, dateNow>>

SetHelmOption ==
    /\ budget.steps > 0
    /\ \E option \in DOMAIN HELM_default :
       \E value \in HelmValues(option) :
          helm' = [helm EXCEPT ![option] = value]
    /\ budget' = [budget EXCEPT !.steps = @ - 1]
    /\ UNCHANGED <<gatewayVarsIdle, usb, gate, dateNow>>

\* The gateway under the policy as shipped.
InitGateway ==
    /\ InitExecutor({SingleJob}, 0, 0, MaxArrivals + 1, MaxTicks, 0)
    /\ ManifestIdle
    /\ GatewayIdle
    /\ AutomationIdle

NextGateway ==
    \/ GatewayReceive
    \/ GatewayTick

SpecGateway == InitGateway /\ [][NextGateway]_vars

\* The gateway while the policy is changed through the HELM controls.
InitPolicy ==
    /\ InitExecutor({SingleJob}, 0, 0, MaxArrivals, MaxTicks, MaxHelmChanges)
    /\ ManifestIdle
    /\ GatewayIdle
    /\ AutomationIdle

NextPolicy ==
    \/ GatewayReceive
    \/ GatewayTick
    \/ ActivateHelm
    \/ DeactivateHelm
    \/ SetHelmOption

SpecPolicy == InitPolicy /\ [][NextPolicy]_vars

(***************************************************************************)
(* The inbound channel over several calls: a producer replaces             *)
(* signals/inbound.json, the process calls receiveSignals and              *)
(* probeConnection, and time passes.                                       *)
(***************************************************************************)
\* An envelope without its payload field, as JSON.parse returns it.
bareSignal(source, timestamp) ==
    [ type |-> "command", direction |-> "inbound", timestamp |-> timestamp,
      checksum |-> <<0, 0>>, source |-> source, deviceId |-> Undefined ]

\* Envelopes of a producer whose clock agrees with the process, or is ahead
\* of it by the freshness bound: a valid command, a command from a source
\* that is not allow-listed, and an envelope without payload.
ChannelSignals(now) ==
    UNION { { goodSignal(timestamp),
              gatewaySignal("phone-cli", <<<<"action", "cancel">>, <<"jobId", "job-1">>>>,
                            timestamp, TRUE),
              bareSignal("dvd557s", timestamp) } :
            timestamp \in {now, now + HELM_maxSignalAge} }

ChannelFiles(now) ==
    { <<signal>> : signal \in ChannelSignals(now) }
      \cup { <<first, second>> : first \in ChannelSignals(now), second \in ChannelSignals(now) }

channelVarsIdle == <<mvars, audit, peer, exec, helm, act, polled, lastStep, auto>>

\* the producer replaces signals/inbound.json
InboundWrite ==
    /\ budget.arrivals > 0
    /\ \E data \in ChannelFiles(dateNow) : store' = [store EXCEPT !.inbound = data]
    /\ budget' = [budget EXCEPT !.arrivals = @ - 1]
    /\ UNCHANGED <<channelVarsIdle, usb, gate, dateNow>>

\* the set of envelopes of a sequence
elements(signals) == {signals[i] : i \in 1..Len(signals)}

\* receiveSignals on the file as it stands.  gate keeps the file, what the
\* call returned, whether its catch block ran, and the envelopes the calls
\* before it returned.
ReceiveSignals ==
    /\ budget.steps > 0
    /\ store.inbound # <<>>
    /\ \E r \in {receiveSignals(usb, helm, store.inbound, TRUE, dateNow)} :
          /\ usb' = r.usb
          /\ gate' = [kind |-> "channel", data |-> store.inbound, now |-> dateNow,
                      last |-> usb.lastSignal,
                      returned |-> r.signals, caught |-> r.caught,
                      delivered |-> IF gate.kind = "channel"
                                    THEN gate.delivered \cup elements(gate.returned)
                                    ELSE {}]
    /\ budget' = [budget EXCEPT !.steps = @ - 1]
    /\ UNCHANGED <<channelVarsIdle, store, dateNow>>

\* probeConnection where no device is found: state.lastSignal = Date.now()
\* and the probe signal is queued
ProbeConnection ==
    /\ budget.steps > 0
    /\ usb' = [usb EXCEPT
                 !.lastSignal = dateNow,
                 !.signalQueue = Append(@, [action |-> "probe", jobId |-> Undefined,
                                            status |-> Undefined, timestamp |-> dateNow])]
    /\ budget' = [budget EXCEPT !.steps = @ - 1]
    /\ UNCHANGED <<channelVarsIdle, store, gate, dateNow>>

\* time passes: a moment, or the freshness bound and a moment
ChannelTick ==
    /\ budget.ticks > 0
    /\ \E delay \in {1, HELM_maxSignalAge + 1} : dateNow' = dateNow + delay
    /\ budget' = [budget EXCEPT !.ticks = @ - 1]
    /\ UNCHANGED <<channelVarsIdle, store, usb, gate>>

InitChannel ==
    /\ InitExecutor({SingleJob}, 0, 0, MaxArrivals, MaxTicks, MaxChannelCalls)
    /\ ManifestIdle
    /\ GatewayIdle
    /\ AutomationIdle

NextChannel ==
    \/ InboundWrite
    \/ ReceiveSignals
    \/ ProbeConnection
    \/ ChannelTick

SpecChannel == InitChannel /\ [][NextChannel]_vars

(***************************************************************************)
(* The integrity digest on its own: createSignal builds an envelope, a     *)
(* relay may write the payload back with its keys in another order, and    *)
(* the integrity check of validateSignalSecurity is applied.               *)
(***************************************************************************)
\* createSignal(type, payload) at time now
createSignal(type, payload, now) ==
    [ type |-> type, direction |-> "outbound", timestamp |-> now,
      payload |-> payload, checksum |-> generateChecksum(payload) ]

\* signal.checksum !== generateChecksum(signal.payload) does not hold
integrityVerifies(signal) == signal.checksum = generateChecksum(signal.payload)

\* Payloads of one to three of these properties, in any insertion order.
DigestProperties ==
    { <<"action", "cancel">>, <<"jobId", "job-1">>, <<"note", "ok">>,
      <<"source", "dvd557s">> }

distinctKeys(payload) ==
    \A i, j \in 1..Len(payload) : i # j => payload[i][1] # payload[j][1]

DigestPayloads ==
    { payload \in UNION { [1..n -> DigestProperties] : n \in 1..3 } :
        distinctKeys(payload) }

\* the same object with its keys in the order given by the permutation
reorderKeys(payload, order) == [i \in 1..Len(payload) |-> payload[order[i]]]

digestVarsIdle ==
    <<mvars, audit, peer, store, exec, usb, helm, act, dateNow, budget, polled, lastStep, auto>>

CreateSignal ==
    /\ \E payload \in DigestPayloads :
          gate' = [kind |-> "signal",
                   signal |-> createSignal("command", payload, dateNow),
                   built |-> payload, verified |-> "no"]
    /\ UNCHANGED digestVarsIdle

ReorderPayload ==
    /\ gate.kind = "signal" /\ gate.verified = "no"
    /\ \E order \in Permutations(1..Len(gate.signal.payload)) :
          gate' = [gate EXCEPT !.signal.payload = reorderKeys(@, order)]
    /\ UNCHANGED digestVarsIdle

VerifyIntegrity ==
    /\ gate.kind = "signal" /\ gate.verified = "no"
    /\ gate' = [gate EXCEPT !.verified =
                  IF integrityVerifies(gate.signal) THEN "pass" ELSE "fail"]
    /\ UNCHANGED digestVarsIdle

InitDigest ==
    /\ InitExecutor({SingleJob}, 0, 0, 0, 0, 0)
    /\ ManifestIdle
    /\ GatewayIdle
    /\ AutomationIdle

NextDigest ==
    \/ CreateSignal
    \/ ReorderPayload
    \/ VerifyIntegrity

SpecDigest == InitDigest /\ [][NextDigest]_vars

(***************************************************************************)
(* The initiator and the executor on one store: `burn to disc` submits     *)
(* jobs (core/executor: executeBurnToDisc), `cancel` writes its command,   *)
(* and the polling executor picks the jobs up.                             *)
(***************************************************************************)
\* burn-<timestamp>: the job ids of successive submissions
SubmissionIds == <<"job-1", "job-2", "job-3", "job-4">>
Submitted == {j \in JobIds : store.manifests[j] # NoFile}

\* executeBurnToDisc: priority is high when the target names priority or
\* urgent, normal otherwise; jobs/<id>/manifest.json is uploaded in state
\* pending, then pending/<id>.json.  outcome: "ok", "fail1" (the manifest
\* upload throws) or "fail2" (the descriptor upload throws).
ExecuteBurnToDisc ==
    /\ Cardinality(Submitted) < MaxSubmissions
    /\ \E priority \in {"high", "normal"}, outcome \in Outcomes :
          LET jobId == SubmissionIds[Cardinality(Submitted) + 1]
              m == transitionState(createManifest(jobId, 1, priority, dateNow),
                                   "pending", "system", "Uploaded to cloud", dateNow)
              st1 == [store EXCEPT !.manifests[jobId] =
                         m.manifest.lifecycle.currentState]
          IN /\ store' = IF outcome = "ok"
                         THEN [st1 EXCEPT !.pending =
                                  Append(@, descriptor(jobId, priority))]
                         ELSE IF outcome = "fail2" THEN st1 ELSE store
             /\ budget' = [budget EXCEPT !.faults = IF outcome = "ok" THEN @ ELSE @ - 1]
             /\ lastStep' = [by |-> 0,
                             writes |-> (IF outcome # "fail1"
                                         THEN <<write("jobs", jobId, "pending")>>
                                         ELSE <<>>) \o
                                        (IF outcome = "ok"
                                         THEN <<write("pending", jobId, "pending")>>
                                         ELSE <<>>)]
    /\ UNCHANGED <<mvars, audit, peer, gate, auto, exec, usb, helm, act, dateNow, polled>>

InitStore ==
    /\ InitExecutor({<<>>}, 1, 0, 0, MaxTicks, MaxTicks * RunLength)
    /\ ManifestIdle
    /\ GatewayIdle
    /\ AutomationIdle

NextStore ==
    \/ ExecuteBurnToDisc
    \/ \E jobId \in JobIds : ExecuteCancel(jobId)
    \/ \E t \in ActIds : StartExecutor(t)
    \/ \E t \in ActIds : PollAndProcess(t)
    \/ \E t \in ActIds : Sleep(t)
    \/ \E t \in ActIds : Queued(t)
    \/ \E t \in ActIds : SendBurn(t)
    \/ \E t \in ActIds : Burning10(t)
    \/ \E t \in ActIds : BurnStep(t)
    \/ \E t \in ActIds : Receive(t)
    \/ \E t \in ActIds : Verifying(t)
    \/ \E t \in ActIds : Complete(t)
    \/ \E t \in ActIds : SyncComplete(t)
    \/ \E t \in ActIds : DeletePending(t)

SpecStore == InitStore /\ [][NextStore]_vars

(***************************************************************************)
(* The automation script against a failing store, and an operator who      *)
(* uploads the descriptor of a failed job to pending/ again.               *)
(***************************************************************************)
\* pending/<jobId>.json is uploaded again for a job that was given up: its
\* completion record says failed and its descriptor is gone from pending/
Resubmit(jobId) ==
    /\ budget.arrivals > 0
    /\ store.completed[jobId] = "failed"
    /\ \A i \in 1..Len(store.pending) : store.pending[i].jobId # jobId
    /\ store' = [store EXCEPT !.pending = Append(@, descriptor(jobId, "high"))]
    /\ budget' = [budget EXCEPT !.arrivals = @ - 1]
    /\ lastStep' = [by |-> 0, writes |-> <<write("pending", jobId, "pending")>>]
    /\ UNCHANGED <<mvars, audit, peer, gate, auto, exec, usb, helm, act, dateNow, polled>>

InitRevive ==
    /\ InitExecutor({SingleJob}, 0, MaxRetries, MaxArrivals, MaxRetries + MaxTicks, 0)
    /\ ManifestIdle
    /\ GatewayIdle
    /\ auto = AutoStart

NextRevive ==
    \/ RunAutomation
    \/ ProcessNextJob
    \/ AutoBurnStart
    \/ AutoPhase
    \/ AutoPhaseSleep
    \/ AutoComplete
    \/ AutoBurnFailed
    \/ AutoSyncCompletion
    \/ AutoSleep
    \/ \E jobId \in JobIds : Resubmit(jobId)

SpecRevive == InitRevive /\ [][NextRevive]_vars

(***************************************************************************)
(* The initiator's automation pass (core/executor: executeAutomate) next   *)
(* to a polling executor whose jobs fail.                                  *)
(***************************************************************************)
\* status.retryCount of a parsed status/<jobId>.json is there or undefined:
\* updateJobStatus and updateStatus write jobId, status, progress, error,
\* updated and device
hasRetryCount(snapshot) == "retryCount" \in DOMAIN snapshot

\* status.retryCount < n: undefined converts to NaN and the comparison is
\* false
retryCountBelow(snapshot, n) == hasRetryCount(snapshot) /\ snapshot.retryCount < n

\* (status.retryCount || 0) + 1
nextRetryCount(snapshot) ==
    (IF hasRetryCount(snapshot) THEN snapshot.retryCount ELSE 0) + 1

\* the descriptor the pass uploads: the snapshot with status pending and the
\* retry count raised (the snapshot carries no priority)
requeued(jobId, snapshot) ==
    [jobId |-> jobId, priority |-> Undefined, retryCount |-> nextRetryCount(snapshot)]

\* uploadToOneDrive(pending/<jobId>.json): the file is created or replaced
RECURSIVE putJobs(_, _, _)
putJobs(files, ids, st) ==
    IF ids = {} THEN files
    ELSE LET jobId == CHOOSE j \in ids : TRUE
             job == requeued(jobId, st.status[jobId])
             at == {i \in 1..Len(files) : files[i].jobId = jobId}
         IN putJobs(IF at = {} THEN Append(files, job)
                    ELSE [i \in 1..Len(files) |-> IF i \in at THEN job ELSE files[i]],
                    ids \ {jobId}, st)

\* the usb-signal module state of the initiator's process (process 3)
cliUsb ==
    IF peer.proc = 0
    THEN [lastSignal |-> 0, signalQueue |-> <<>>, responseBuffer |-> <<>>,
          tracker |-> [count |-> 0, resetTime |-> StartTime + RateWindow]]
    ELSE peer.usb

\* executeAutomate(): the folders are listed (a failing listing throws out
\* of the pass), receiveSignals and probeConnection run in the initiator's
\* process, then every status snapshot with status failed and
\* retryCount < 3 is uploaded to pending/ again
ExecuteAutomate ==
    /\ budget.arrivals > 0
    /\ \E listed \in OkOrFail :
          LET received == receiveSignals(cliUsb, helm, store.inbound, TRUE, dateNow)
              probed == [received.usb EXCEPT
                           !.lastSignal = dateNow,
                           !.signalQueue =
                              Append(@, [action |-> "probe", jobId |-> Undefined,
                                         status |-> Undefined, timestamp |-> dateNow])]
              retried == {j \in JobIds :
                            /\ store.status[j].status = "failed"
                            /\ retryCountBelow(store.status[j], MaxRetries)}
              order == SelectSeq(SubmissionIds, LAMBDA j : j \in retried)
          IN /\ budget' = [budget EXCEPT !.arrivals = @ - 1,
                                         !.faults = IF listed THEN @ ELSE @ - 1]
             /\ IF listed
                THEN /\ store' = [store EXCEPT !.pending = putJobs(@, retried, store)]
                     /\ peer' = [proc |-> 3, usb |-> probed]
                     /\ lastStep' = [by |-> 0,
                                     writes |-> [i \in 1..Len(order) |->
                                                   write("pending", order[i], "pending")]]
                ELSE /\ lastStep' = [by |-> 0, writes |-> <<>>]
                     /\ UNCHANGED <<store, peer>>
    /\ UNCHANGED <<mvars, audit, gate, auto, exec, usb, helm, act, dateNow, polled>>

InitRequeue ==
    /\ InitExecutor({SingleJob}, 1, MaxFaults, MaxTicks, MaxTicks, RunLength)
    /\ ManifestIdle
    /\ GatewayIdle
    /\ AutomationIdle

NextRequeue ==
    \/ ExecuteAutomate
    \/ \E t \in ActIds : StartExecutor(t)
    \/ \E t \in ActIds : PollAndProcess(t)
    \/ \E t \in ActIds : Sleep(t)
    \/ \E t \in ActIds : Queued(t)
    \/ \E t \in ActIds : SendBurn(t)
    \/ \E t \in ActIds : Burning10(t)
    \/ \E t \in ActIds : BurnStep(t)
    \/ \E t \in ActIds : Receive(t)
    \/ \E t \in ActIds : Verifying(t)
    \/ \E t \in ActIds : Complete(t)
    \/ \E t \in ActIds : SyncComplete(t)
    \/ \E t \in ActIds : DeletePending(t)
    \/ \E t \in ActIds : FailStatus(t)
    \/ \E t \in ActIds : FailSync(t)

SpecRequeue == InitRequeue /\ [][NextRequeue]_vars

(***************************************************************************)
(* The outbound queue of one process: sendCommand calls, with              *)
(* probeConnection calls in between, against a store that may fail.        *)
(***************************************************************************)
\* sendCommand('status', ...): the envelope is queued, then the last ten
\* of the queue are uploaded; the call throws when the upload does
SendCommand ==
    /\ budget.steps > 0
    /\ \E ok \in OkOrFail :
          LET r == sendCommand(store, usb, "status", "job-1", Undefined, ok, dateNow) IN
          /\ store' = r.store
          /\ usb' = r.usb
          /\ budget' = spend(IF ok THEN "ok" ELSE "fail1")
          /\ lastStep' = [by |-> 0, writes |-> r.writes]
    /\ dateNow' = dateNow + 1
    /\ UNCHANGED <<mvars, audit, peer, gate, auto, exec, helm, act, polled>>

InitOutbound ==
    /\ InitExecutor({SingleJob}, 0, MaxFaults, 0, 0, MaxSends)
    /\ ManifestIdle
    /\ GatewayIdle
    /\ AutomationIdle

NextOutbound ==
    \/ SendCommand
    \/ ProbeConnection

SpecOutbound == InitOutbound /\ [][NextOutbound]_vars

(***************************************************************************)
(* A caller of the manifest module: one createManifest, then any sequence  *)
(* of transitionState calls.                                               *)
(***************************************************************************)
InitManifest ==
    /\ clock = 1
    /\ manifest = createManifest("job-1", 1, "normal", 0)
    /\ lastCall = NoCall
    /\ InitExecutor({SingleJob}, 0, 0, 0, 0, 0)
    /\ GatewayIdle
    /\ AutomationIdle

TransitionCall ==
    /\ lastCall.n < MaxCalls
    /\ \E newState \in JobStatus, args \in CallArgs :
          LET r == transitionState(manifest, newState, args[1], args[2], clock) IN
          /\ manifest' = r.manifest
          /\ lastCall' = [n |-> lastCall.n + 1,
                          from |-> manifest.lifecycle.currentState,
                          to |-> newState,
                          threw |-> r.threw]
    /\ clock' = clock + 1
    /\ UNCHANGED evars

NextManifest == TransitionCall

SpecManifest == InitManifest /\ [][NextManifest]_vars

(***************************************************************************)
(* Properties of the manifest state machine                                *)
(***************************************************************************)
States == manifest.lifecycle.states
CurrentState == manifest.lifecycle.currentState
LastRecord == States[Len(States)]
IsCall == lastCall'.n = lastCall.n + 1

\* The transition table as the documentation states it.
DocumentedTable ==
    [ created     |-> {"pending", "cancelled"},
      pending     |-> {"queued", "cancelled"},
      queued      |-> {"downloading", "cancelled"},
      downloading |-> {"burning", "failed", "cancelled"},
      burning     |-> {"verifying", "failed", "cancelled"},
      verifying   |-> {"complete", "failed"},
      complete    |-> {},
      failed      |-> {"pending"},
      cancelled   |-> {"pending"} ]

\* C1: for every pair (from, to) of lifecycle states, transitionState on a
\* manifest in state `from` succeeds exactly when `to` is in the documented
\* allowed set of `from`, and on success it appends exactly one transition
\* record {from, to} to lifecycle.states.
C1_TransitionTable ==
    [][ IsCall =>
          /\ lastCall'.from = CurrentState
          /\ lastCall'.threw <=> (lastCall'.to \notin DocumentedTable[lastCall'.from])
          /\ ~lastCall'.threw =>
                /\ Len(States') = Len(States) + 1
                /\ SubSeq(States', 1, Len(States)) = States
                /\ States'[Len(States')].from = lastCall'.from
                /\ States'[Len(States')].to = lastCall'.to ]_mvars

C1_Witness ==
    /\ lastCall.n > 0 /\ ~lastCall.threw
    /\ lastCall.from = "verifying" /\ lastCall.to = "complete"
    /\ Len(States) = 7

\* C2: a transitionState call with a newState that is not allowed from the
\* current state throws and leaves lifecycle.states, lifecycle.currentState,
\* job.status, job.updated and admin.auditLog exactly as they were.
C2_AtomicFailure ==
    [][ (IsCall /\ lastCall'.to \notin DocumentedTable[CurrentState]) =>
          /\ lastCall'.threw
          /\ manifest'.lifecycle.states = manifest.lifecycle.states
          /\ manifest'.lifecycle.currentState = manifest.lifecycle.currentState
          /\ manifest'.job.status = manifest.job.status
          /\ manifest'.job.updated = manifest.job.updated
          /\ manifest'.admin.auditLog = manifest.admin.auditLog ]_mvars

C2_Witness ==
    /\ lastCall.threw
    /\ lastCall.from = "burning" /\ lastCall.to = "complete"
    /\ CurrentState = "burning"

\* C3: after createManifest and any sequence of transitionState calls,
\* lifecycle.currentState equals the `to` field of the last record of
\* lifecycle.states.
C3_CurrentIsLastTo == CurrentState = LastRecord.to

C3_Witness ==
    /\ Len(States) >= 4
    /\ lastCall.threw
    /\ CurrentState = "downloading"

\* C4: the transition history is append-only: the lifecycle.states sequence
\* of any state is a prefix of the sequence of every later state.
C4_AppendOnly ==
    [][ /\ Len(States') >= Len(States)
        /\ SubSeq(States', 1, Len(States)) = States ]_mvars

C4_Witness ==
    /\ Len(States) >= 5
    /\ CurrentState = "pending"
    /\ \E i \in 1..Len(States) : States[i].to = "failed"

\* C5: complete is terminal (once currentState is complete every later
\* transitionState call throws and currentState stays complete); failed and
\* cancelled are not terminal and their only legal successor is pending.
C5_Terminal ==
    [][ /\ CurrentState = "complete" =>
              /\ CurrentState' = "complete"
              /\ IsCall => lastCall'.threw
        /\ (CurrentState \in {"failed", "cancelled"} /\ IsCall) =>
              /\ lastCall'.threw <=> lastCall'.to # "pending"
              /\ CurrentState' \in {CurrentState, "pending"} ]_mvars

C5_Witness ==
    /\ CurrentState = "complete"
    /\ lastCall.threw /\ lastCall.from = "complete" /\ lastCall.to = "pending"

\* C6: every successful transitionState updates the job.status mirror and
\* appends exactly one audit-log entry matching the transition record, so
\* job.status = lifecycle.currentState and the audit log is as long as the
\* transition history in every reachable manifest.
C6_MirrorAndAudit ==
    /\ manifest.job.status = CurrentState
    /\ Len(manifest.admin.auditLog) = Len(States)
    /\ \A i \in 2..Len(States) :
          /\ manifest.admin.auditLog[i].action = "STATE_TRANSITION"
          /\ manifest.admin.auditLog[i].details.from = States[i].from
          /\ manifest.admin.auditLog[i].details.to = States[i].to
          /\ manifest.admin.auditLog[i].actor = States[i].actor

C6_Witness ==
    /\ Len(States) >= 3
    /\ manifest.job.status = "queued"
    /\ manifest.admin.auditLog[3].actor = "executor"

(***************************************************************************)
(* Properties of the polling executor                                      *)
(***************************************************************************)
\* the documented order urgent > high > normal > low
DocumentedRank == [urgent |-> 0, high |-> 1, normal |-> 2, low |-> 3]

JustSelected(t) == polled.by = t /\ act[t].pc = "queued" /\ lastStep.by = t

\* C7: on every poll tick the job selected has the highest priority among
\* all parsed pending descriptors, under urgent > high > normal > low.
C7_SelectsHighestPriority ==
    \A t \in ActIds :
        JustSelected(t) =>
            \A i \in 1..Len(polled.jobs) :
                DocumentedRank[act[t].job.priority]
                    <= DocumentedRank[polled.jobs[i].priority]

InProcessJob(t) == act[t].pc \in ProcessPcs

\* C8: within one executor process at most one processJob execution is in
\* progress at any time.
C8_SingleActiveJob ==
    Cardinality({t \in ActIds : InProcessJob(t)}) <= 1

\* the status of a job before the executor has written a snapshot is the
\* status of its descriptor
PersistedStatus(st, jobId) ==
    IF st.status[jobId].status = NoFile THEN "pending" ELSE st.status[jobId].status

\* C9: every consecutive pair of different statuses the executor persists
\* for a job is a pair accepted by the manifest transition table.
C9_PersistedSequenceLegal ==
    [][ \A j \in JobIds :
          PersistedStatus(store', j) # PersistedStatus(store, j) =>
              isValidTransition(PersistedStatus(store, j), PersistedStatus(store', j)) ]_vars

StatusSignals(jobId, statuses, time) ==
    {i \in 1..Len(usb.signalQueue) :
        /\ usb.signalQueue[i].action = "status"
        /\ usb.signalQueue[i].jobId = jobId
        /\ usb.signalQueue[i].status \in statuses
        /\ usb.signalQueue[i].timestamp <= time}

\* the cancel command was issued while the executor was in the burning phase
\* of the job, with at least one progress step (and its receiveSignals) to come
CancelledMidBurn(jobId) ==
    LET marker == store.commands[jobId] IN
    /\ marker.command = "cancel"
    /\ Cardinality(StatusSignals(jobId, {"burning"}, marker.timestamp)) \in 1..8
    /\ StatusSignals(jobId, JobStatus \ {"queued", "burning"}, marker.timestamp) = {}

\* C11: a job whose cancel command was issued in the middle of its burning
\* phase does not end complete (it ends cancelled instead).
C11_CancelCommandCancels ==
    \A jobId \in JobIds :
        CancelledMidBurn(jobId) =>
            /\ store.status[jobId].status # "complete"
            /\ store.completed[jobId] # "complete"

\* the failed runs of a job the executor has recorded (state.failedJobs)
Failures(jobId) ==
    Cardinality({i \in 1..Len(exec.failedJobs) : exec.failedJobs[i] = jobId})

\* C12: the polling executor starts a job again after a failure at most
\* maxRetries times: a job just selected has failed at most maxRetries times
\* before.
C12_RetriesBounded ==
    \A t \in ActIds :
        JustSelected(t) => Failures(act[t].job.jobId) <= MaxRetries

\* the retry counters of the descriptors pending/ holds for a job
RetryCounts(st, jobId) ==
    {st.pending[i].retryCount :
        i \in {k \in 1..Len(st.pending) : st.pending[k].jobId = jobId}}

\* the step with which a run of processJob leaves its catch block
FailureHandled(t) ==
    /\ act[t].pc \in {"failStatus", "failSync"}
    /\ act'[t].pc \notin ProcessPcs

\* C13: when the handling of a failed run ends, status failed is persisted
\* for the job and the job's retry counter is one more than when the run
\* started.
C13_FailureCounted ==
    [][ \A t \in ActIds :
          FailureHandled(t) =>
              /\ store'.status[act[t].job.jobId].status = "failed"
              /\ RetryCounts(store', act[t].job.jobId) = {act[t].job.retryCount + 1} ]_vars

\* a run of processJob has just ended and the last status persisted for its
\* job is complete
EndedComplete(t) ==
    /\ act[t].pc \in {"sleep", "returned"}
    /\ act[t].job # NoJob
    /\ lastStep.by = t
    /\ store.status[act[t].job.jobId].status = "complete"

\* C14: after the run that persisted status complete has finished, the
\* completion record and its archive copy are written and the job's
\* descriptor is no longer in the pending set.
C14_CompletedLeavesPending ==
    \A t \in ActIds :
        EndedComplete(t) =>
            /\ store.completed[act[t].job.jobId] = "complete"
            /\ store.archive[act[t].job.jobId] = "complete"
            /\ RetryCounts(store, act[t].job.jobId) = {}

\* C15: no store error during polling or during a job's processing ends
\* the polling loop: while the running flag is true the loop is alive.
C15_LoopSurvives ==
    auto.running => auto.pc # "crashed"

\* C16: stopping is a graceful drain: when the executor exits after a stop
\* signal, no job is in flight (its processing has run to its end).
C16_GracefulDrain ==
    auto.pc = "exited" => auto.interrupted \notin AutoJobPcs

(***************************************************************************)
(* Properties of the inbound gateway                                       *)
(***************************************************************************)
\* The checks of the gateway in the documented order, and what it means for
\* the last envelope of the received file to fail each of them under the
\* policy in force at the call.  A check that is switched off fails nothing.
GatewayChecks == <<"source", "freshness", "rate", "content", "integrity">>

ReasonOf ==
    [ source    |-> {"BLOCKED: Source not DVD557s"},
      freshness |-> {"BLOCKED: Signal too old (replay attack prevention)"},
      rate      |-> {"BLOCKED: Rate limit exceeded"},
      content   |-> {"BLOCKED: Script injection detected",
                     "BLOCKED: WebSocket connection attempt"},
      integrity |-> {"BLOCKED: Invalid checksum (tampering detected)"} ]

ScriptPayload == <<<<"note", "<script>">>>>
WebSocketPayload == <<<<"note", "ws://hub">>>>

Received == gate.kind = "receive"

\* envelopes of the burst that reach the rate counter: the burst is new to
\* the gateway (its timestamps are the time of the call) and is from an
\* allow-listed source
FrontCounted ==
    IF gate.helm.active /\ gate.now > gate.last THEN gate.front ELSE 0

WindowElapsed == gate.now > gate.before.resetTime

\* envelopes counted in the window before the turn of the last envelope
CountedBefore ==
    (IF WindowElapsed THEN 0 ELSE gate.before.count) + FrontCounted

FailsCheck(check) ==
    /\ gate.helm.active
    /\ CASE check = "source" ->
              gate.helm.onlyDVD557s /\ gate.signal.source \notin ALLOWED_SOURCES
         [] check = "freshness" -> gate.age > gate.helm.maxSignalAge
         [] check = "rate" -> CountedBefore + 1 > gate.helm.rateLimitPerMinute
         [] check = "content" ->
              \/ gate.helm.blockScriptInjection
                   /\ gate.signal.payload \in {ScriptPayload, WebSocketPayload}
              \/ gate.helm.blockWebSockets /\ gate.signal.payload = WebSocketPayload
         [] check = "integrity" ->
              gate.signal.checksum # payloadFacts[gate.signal.payload].checksum

FailingChecks == {k \in 1..Len(GatewayChecks) : FailsCheck(GatewayChecks[k])}

FirstFailing ==
    GatewayChecks[CHOOSE k \in FailingChecks : \A other \in FailingChecks : k <= other]

\* C17: whenever receiveSignals evaluates an envelope, the envelope is
\* allowed exactly if it fails no check, the reason logged for a rejected
\* envelope is the reason of the first check it fails in the order source,
\* freshness, rate, content, integrity, and an envelope that fails the source
\* or the freshness check leaves the rate counter as the envelopes before it
\* left it.
C17_FirstFailingCheckWins ==
    Received /\ gate.evaluated =>
      /\ gate.allowed <=> FailingChecks = {}
      /\ FailingChecks # {} => gate.reason \in ReasonOf[FirstFailing]
      /\ FailingChecks # {} /\ FirstFailing \in {"source", "freshness"} =>
           gate.after.count = IF FrontCounted > 0 THEN CountedBefore
                              ELSE gate.before.count
      /\ FailingChecks # {} /\ FirstFailing \in {"rate", "content", "integrity"} =>
           gate.after.count = CountedBefore + 1

\* an envelope that fails all five checks is rejected for its source, and
\* the counter stands where the burst before it left it
C17_Witness ==
    /\ Received /\ gate.evaluated
    /\ FailingChecks = 1..Len(GatewayChecks)
    /\ gate.reason = "BLOCKED: Source not DVD557s"
    /\ gate.front = HELM_rateLimitPerMinute
    /\ gate.after.count = HELM_rateLimitPerMinute

OtherwiseValid == FailingChecks \subseteq {3}

\* C19: an otherwise valid envelope is allowed exactly if, counted in its
\* window with the envelopes before it, it is at most the
\* rateLimitPerMinute-th; past that it is rejected with the rate-limit
\* reason.  The count starts from zero again once the window has elapsed.
\* Of a file of rateLimitPerMinute + 1 valid envelopes received in a window
\* that holds no others, exactly the first rateLimitPerMinute are returned.
C19_RateLimit ==
    Received /\ gate.evaluated /\ OtherwiseValid =>
      /\ gate.allowed <=> CountedBefore + 1 <= gate.helm.rateLimitPerMinute
      /\ ~gate.allowed => gate.reason \in ReasonOf.rate
      /\ gate.after.count = CountedBefore + 1
      /\ WindowElapsed => gate.after.resetTime = gate.now + RateWindow
      /\ gate.front = gate.helm.rateLimitPerMinute /\ CountedBefore = gate.front =>
           ~gate.allowed /\ gate.count = gate.helm.rateLimitPerMinute

\* a window is used up, it elapses, and a file of rateLimitPerMinute + 1
\* valid envelopes arrives: the count restarts, rateLimitPerMinute envelopes
\* are returned and the last is rejected for the rate
C19_Witness ==
    /\ Received /\ gate.evaluated /\ OtherwiseValid
    /\ gate.before.count > HELM_rateLimitPerMinute
    /\ WindowElapsed
    /\ gate.front = HELM_rateLimitPerMinute
    /\ gate.count = HELM_rateLimitPerMinute
    /\ gate.reason \in ReasonOf.rate
    /\ gate.after.count = HELM_rateLimitPerMinute + 1

MatchesBlockedPattern == gate.signal.payload \in {ScriptPayload, WebSocketPayload}

SameObject(p, q) ==
    /\ Len(p) = Len(q)
    /\ {p[i] : i \in 1..Len(p)} = {q[i] : i \in 1..Len(q)}

\* C21: an envelope built by createSignal passes the integrity check, also
\* after its payload has been written back with its keys in another order.
C21_DigestOrderIndependent ==
    gate.kind = "signal" /\ gate.verified # "no"
      /\ SameObject(gate.signal.payload, gate.built) => gate.verified = "pass"

\* an envelope of the file that receiveSignals has to return: new to the
\* gateway, complete, from an allow-listed source, fresh and intact
Deliverable(signal) ==
    /\ signal.timestamp > gate.last
    /\ hasPayload(signal)
    /\ signal.source \in ALLOWED_SOURCES
    /\ gate.now - signal.timestamp <= HELM_maxSignalAge
    /\ integrityVerifies(signal)

\* C22: no receiveSignals call ends in its catch block because
\* validateSignalSecurity threw, and every envelope of the file that passes
\* validation is returned, whatever else the file holds.
C22_GatewayNeverThrows ==
    gate.kind = "channel" =>
      /\ ~gate.caught
      /\ \A signal \in elements(gate.data) :
           Deliverable(signal) => signal \in elements(gate.returned)

\* C23: no receiveSignals call returns an envelope that an earlier call
\* returned, and lastSignal never decreases.
C23_AtMostOnce ==
    /\ [](gate.kind = "channel" => elements(gate.returned) \cap gate.delivered = {})
    /\ [][usb'.lastSignal >= usb.lastSignal]_vars

\* the prefixes reserved to the initiator
InitiatorPrefixes == {"pending", "commands"}
WritesOf(step) == {step.writes[i] : i \in 1..Len(step.writes)}

\* C24: every object the initiator writes lies under pending/ or commands/,
\* and the executor never writes or deletes an object under these two
\* prefixes, so that no path has both as its writers.
C24_PathsPartitioned ==
    \A w \in WritesOf(lastStep) :
       IF lastStep.by \in ActIds
       THEN w.path \notin InitiatorPrefixes
       ELSE w.path \in InitiatorPrefixes

\* sendCommand queued an envelope in this step
Sent ==
    /\ Len(usb'.signalQueue) = Len(usb.signalQueue) + 1
    /\ usb'.signalQueue[Len(usb'.signalQueue)].action # "probe"
\* ... and its upload succeeded
Uploaded == Sent /\ budget'.faults = budget.faults
\* file holds the last envelopes of queue, at most RingSize, in queue order
RingSize == 10
IsTailOf(file, queue) ==
    /\ Len(file) = IF Len(queue) < RingSize THEN Len(queue) ELSE RingSize
    /\ \A i \in 1..Len(file) : file[i] = queue[Len(queue) - Len(file) + i]

\* C25: signals/outbound.json never holds more than 10 envelopes; after a
\* sendCommand call that returns it holds the most recent envelopes of the
\* process's queue, in send order, and a call whose upload fails leaves the
\* file as it was.
C25_OutboundRing ==
    /\ [](Len(store.outbound) <= RingSize)
    /\ [][Uploaded => IsTailOf(store'.outbound, usb'.signalQueue)]_vars
    /\ [][Sent /\ ~Uploaded => store'.outbound = store.outbound]_vars

\* more than ten envelopes were sent and the file holds the last ten
C25_Witness ==
    /\ Len(usb.signalQueue) > RingSize
    /\ Len(store.outbound) = RingSize
    /\ store.outbound[RingSize] = usb.signalQueue[Len(usb.signalQueue)]
    /\ store.outbound[1] = usb.signalQueue[Len(usb.signalQueue) - RingSize + 1]
    /\ store.outbound[1] # usb.signalQueue[1]

(***************************************************************************)
(* Properties of job selection                                             *)
(***************************************************************************)
OfPriority(jobs, p) == SelectSeq(jobs, LAMBDA j : j.priority = p)

\* C26: the job a tick selects is the first, in the order of the listing,
\* of the descriptors read that have its priority, and sorting leaves the
\* descriptors of each priority in the order of the listing.
C26_StableSort ==
    /\ \A t \in ActIds :
          JustSelected(t) =>
             OfPriority(polled.jobs, act[t].job.priority)[1] = act[t].job
    /\ \A p \in Priorities :
          OfPriority(sortJobs(polled.jobs), p) = OfPriority(polled.jobs, p)

\* the listing held two descriptors of one priority and the first was taken
C26_Witness ==
    \E t \in ActIds :
       /\ JustSelected(t)
       /\ Len(OfPriority(polled.jobs, act[t].job.priority)) >= 2
       /\ polled.jobs[1] = act[t].job
       /\ polled.jobs[2].priority = act[t].job.priority

\* the descriptor of jobId was uploaded to pending/ again and is there
Resubmitted(jobId) ==
    /\ \E w \in WritesOf(lastStep) :
          w.path = "pending" /\ w.jobId = jobId /\ w.status = "pending"
    /\ \E i \in 1..Len(store.pending) : store.pending[i].jobId = jobId
\* a pass of the running automation loop that read pending/ without error
CleanPass ==
    /\ auto.pc = "loopTop" /\ auto.running
    /\ auto'.pc # "loopTop"
    /\ budget'.faults = budget.faults

\* C27: a job that was given up is not taken up again before it is
\* resubmitted, and once its descriptor is back in pending/ the running
\* executor takes it up again: a polling pass that reads the folder selects
\* it.
C27_ResubmissionRevives ==
    /\ [][\A j \in JobIds :
            auto.failedJobs[j] >= MaxRetries /\ ~Resubmitted(j) /\ CleanPass
              => auto'.job.jobId # j \/ auto'.pc # "burnStart"]_vars
    /\ [][\A j \in JobIds :
            Resubmitted(j) /\ CleanPass
              => auto'.pc = "burnStart" /\ auto'.job.jobId = j]_vars

\* the descriptors the tick parsed into jobs
WellFormed(jobs) == {jobs[i] : i \in 1..Len(jobs)} \ {NoJob}
\* activation t polled in this step, pending/ held a descriptor that could
\* not be read or did not hold a job, and one that did
MixedTick(t) ==
    /\ act[t].pc = "loopTop" /\ exec.running
    /\ polled'.by = t /\ act'[t].pc # "loopTop"
    /\ WellFormed(polled'.jobs) # {}
    /\ Len(polled'.jobs) < Len(store.pending) \/ holdsNull(polled'.jobs)

\* C28: a tick that meets a malformed descriptor next to well-formed ones
\* still selects a job, and the job is the well-formed one of the highest
\* priority.
C28_MalformedSkipped ==
    [][\A t \in ActIds :
          MixedTick(t) =>
             /\ act'[t].pc = "queued"
             /\ act'[t].job \in WellFormed(polled'.jobs)
             /\ \A w \in WellFormed(polled'.jobs) :
                   DocumentedRank[act'[t].job.priority] <= DocumentedRank[w.priority]]_vars

\* the burning phase of processJob: between the first burning status and
\* the verifying status
Burning(p) == act[p].pc \in {"burnStep", "recv"}
\* process q is at work on the job at the head of pending/
AtWorkOn(q, job) == InProcessJob(q) /\ act[q].job = job

\* C29: nothing keeps an executor from a job another executor is at work
\* on: a poll of a running executor selects the job at the head of
\* pending/ also while the other executor is processing that job.
C29_NoMutualExclusion ==
    [][\A p \in ActIds :
          /\ act[p].pc = "loopTop" /\ exec.running /\ Running(p)
          /\ act'[p].pc # "loopTop"
          /\ store.pending # <<>>
          /\ \E q \in ActIds \ {p} : AtWorkOn(q, store.pending[1])
          => AtWorkOn(p, store.pending[1])']_vars

\* both executors are in the burning phase of the same job
C29_Witness ==
    /\ peer.proc # 0
    /\ \A p \in ActIds : Burning(p) /\ act[p].job = act[1].job
    /\ store.status[act[1].job.jobId].status = "burning"

\* how often the job has been requeued: the retry count of its descriptor
Requeues(files, jobId) ==
    LET at == {i \in 1..Len(files) : files[i].jobId = jobId}
    IN IF at = {} THEN 0 ELSE files[CHOOSE i \in at : TRUE].retryCount
\* an automation pass that could list the folders
AutomatePass == budget'.arrivals < budget.arrivals /\ budget'.faults = budget.faults
RequeuedBy(step, jobId) ==
    \E w \in WritesOf(step) : w.path = "pending" /\ w.jobId = jobId /\ w.status = "pending"

\* C30: an automation pass requeues every job whose status snapshot says
\* failed and that was requeued fewer than 3 times, as a pending descriptor
\* with the count raised by one, and requeues no job that was requeued 3
\* times.
C30_FailedJobsRequeued ==
    [][AutomatePass =>
         \A j \in JobIds :
            LET previous == Requeues(store.pending, j) IN
            /\ store.status[j].status = "failed" /\ previous < MaxRetries
                 => /\ RequeuedBy(lastStep', j)
                    /\ Requeues(store'.pending, j) = previous + 1
            /\ previous >= MaxRetries => ~RequeuedBy(lastStep', j)]_vars

(***************************************************************************)
(* Properties of terminal states                                           *)
(***************************************************************************)
\* status/<jobId>.json says cancelled
PersistedCancelled(jobId) == store.status[jobId].status = "cancelled"

\* C31: once status cancelled is persisted for a job, no poll tick selects
\* the job and no status burning or complete is persisted for it.
C31_CancelledStaysCancelled ==
    [][\A j \in JobIds :
          PersistedCancelled(j) =>
             /\ store'.status[j].status \notin {"burning", "complete"}
             /\ \A t \in ActIds :
                   act[t].pc = "loopTop" /\ act'[t].pc = "queued"
                     => act'[t].job.jobId # j]_vars

\* status/<jobId>.json says complete
PersistedComplete(jobId) == store.status[jobId].status = "complete"

\* C32: once the status snapshot of a job says complete, the executor
\* writes no other status for the job and no completion record with a
\* status other than complete.
C32_CompleteIsFinal ==
    [][\A j \in JobIds :
          PersistedComplete(j) =>
             /\ store'.status[j].status = "complete"
             /\ store'.completed[j] # store.completed[j]
                  => store'.completed[j] = "complete"]_vars

\* an earlier processing run of the executor persisted complete for the
\* job: the run is in completedJobs, or its completion record is in the store
CompletedBefore(jobId) ==
    \/ \E i \in 1..Len(exec.completedJobs) : exec.completedJobs[i] = jobId
    \/ store.completed[jobId] = "complete"

\* C33: status complete is persisted for a job by one processing run at
\* most: no step writes the snapshot complete for a job that an earlier run
\* completed.
C33_CompletedOnce ==
    [][\A j \in JobIds :
          ~PersistedComplete(j) /\ PersistedComplete(j)' => ~CompletedBefore(j)]_vars

(***************************************************************************)
(* Properties of runSingleBurn and of the executor's module state          *)
(***************************************************************************)
\* runSingleBurn has returned from activation t
Returned(t) == act[t].kind = "single" /\ act[t].pc = "returned"

\* C34: runSingleBurn returns success = true only when the status snapshot
\* of the job says complete.
C34_SuccessMeansComplete ==
    \A t \in ActIds :
       Returned(t) /\ act[t].success => PersistedComplete(act[t].job.jobId)

\* C35: state.currentJob is the job being processed while a processJob
\* execution is in progress, and null whenever none is.
C35_CurrentJobTracksProcessing ==
    IF \E t \in ActIds : InProcessJob(t)
    THEN \E t \in ActIds : InProcessJob(t) /\ exec.currentJob = act[t].job.jobId
    ELSE exec.currentJob = Null

(***************************************************************************)
(* Properties of the inbound channel and of the status snapshots           *)
(***************************************************************************)
\* the envelope passes every gateway check at the time of the call, the
\* rate window being empty
PassesAllChecks(signal) ==
    LET verdict == validateSignalSecurity(signal, helm,
                      [count |-> 0, resetTime |-> gate.now + RateWindow], gate.now)
    IN ~verdict.threw /\ verdict.allowed

\* C36: every envelope of signals/inbound.json that passes all gateway
\* checks when receiveSignals is called is returned by the call or was
\* returned by a call before it.
C36_NoValidSignalLost ==
    gate.kind = "channel" /\ ~gate.caught =>
       \A signal \in elements(gate.data) :
          PassesAllChecks(signal)
            => signal \in elements(gate.returned) \cup gate.delivered

\* status/<jobId>.json has been written
HasSnapshot(jobId) == store.status[jobId].status # NoFile

\* C37: every status value persisted to status/<jobId>.json is one of the
\* nine lifecycle states, and a snapshot with status complete carries
\* progress 100.
C37_PersistedStatusIsLifecycle ==
    \A j \in JobIds : HasSnapshot(j) =>
       /\ store.status[j].status \in JobStatus
       /\ store.status[j].status = "complete" => store.status[j].progress = 100

(***************************************************************************)
(* The transition history as a chain                                       *)
(***************************************************************************)
\* C38: the first record of lifecycle.states is {from: null, to: created},
\* every later record's `from` is the `to` of the record before it, and a
\* record that enters burning follows a record that entered downloading.
C38_HistoryIsChain ==
    /\ Len(States) >= 1
    /\ States[1].from = Null /\ States[1].to = "created"
    /\ \A i \in 2..Len(States) :
          /\ States[i].from = States[i - 1].to
          /\ States[i].to = "burning" => States[i - 1].to = "downloading"

C38_Witness ==
    /\ Len(States) >= 6
    /\ States[5].to = "burning"
    /\ States[6].to = "failed"
    /\ CurrentState = "failed"

(***************************************************************************)
(* core/admin: the audit log kept in data/audit.json                       *)
(***************************************************************************)
AuditCap == 500
DefaultLimit == 50
MaxAudits == 502
\* the limits callers pass: none, one, the admin command's 20, the default,
\* the cap and one above it
AuditLimits == {0, 1, 20, DefaultLimit, AuditCap, AuditCap + 1}

\* Array.prototype.slice(start): a negative start counts from the end, and
\* the start is clamped to the array
slice(seq, start) ==
    LET k == IF start < 0
             THEN (IF Len(seq) + start > 0 THEN Len(seq) + start ELSE 0)
             ELSE (IF start < Len(seq) THEN start ELSE Len(seq))
    IN SubSeq(seq, k + 1, Len(seq))

\* log.entries.push(entry); entries: log.entries.slice(-500)
logAudit(entries, entry) == slice(Append(entries, entry), 0 - AuditCap)

\* log.entries.slice(-limit)
getAuditLog(entries, limit) == slice(entries, 0 - limit)

\* the entry of the n-th logAudit call is identified by n
LogAudit ==
    /\ audit.n < MaxAudits
    /\ audit' = [entries |-> logAudit(audit.entries, audit.n + 1),
                 n |-> audit.n + 1,
                 call |-> [kind |-> "log"]]
    /\ UNCHANGED <<mvars, store, exec, usb, helm, act, dateNow, budget, polled, lastStep,
                   gate, auto, peer>>

GetAuditLog ==
    /\ \E limit \in AuditLimits :
          audit' = [audit EXCEPT !.call = [kind |-> "get", limit |-> limit,
                                           returned |-> getAuditLog(audit.entries, limit)]]
    /\ UNCHANGED <<mvars, store, exec, usb, helm, act, dateNow, budget, polled, lastStep,
                   gate, auto, peer>>

InitAudit ==
    /\ InitExecutor({SingleJob}, 0, 0, 0, 0, 0)
    /\ ManifestIdle
    /\ GatewayIdle
    /\ AutomationIdle

NextAudit ==
    \/ LogAudit
    \/ GetAuditLog

SpecAudit == InitAudit /\ [][NextAudit]_vars

(***************************************************************************)
(* Properties of the audit log                                             *)
(***************************************************************************)
\* the last k elements of seq, in order
MostRecent(seq, k) == [i \in 1..k |-> seq[Len(seq) - k + i]]
Logged == [i \in 1..audit.n |-> i]
Smaller(a, b) == IF a < b THEN a ELSE b

\* the persisted log holds at most 500 entries, the most recent ones
AuditLogCapped ==
    /\ Len(audit.entries) <= AuditCap
    /\ audit.entries = MostRecent(Logged, Smaller(AuditCap, audit.n))

\* getAuditLog(limit) returned at most limit entries, the most recent ones
LimitRespected ==
    audit.call.kind = "get" =>
       /\ Len(audit.call.returned) <= audit.call.limit
       /\ audit.call.returned =
             MostRecent(audit.entries, Smaller(audit.call.limit, Len(audit.entries)))

\* C39: getAuditLog(limit) returns at most limit entries, the most recent
\* ones in order, for every limit >= 0; and after any sequence of logAudit
\* calls the persisted log holds at most 500 entries, the most recent ones.
C39_AuditLogBounded == AuditLogCapped /\ LimitRespected

\* the same with limit 0 left out
PositiveLimitRespected == audit.call.kind = "get" /\ audit.call.limit > 0 => LimitRespected

(***************************************************************************)
(* The rate tracker and the envelopes that never reach it                  *)
(***************************************************************************)
\* the tracker as the burst before the last envelope leaves it
TrackerLeftByFront ==
    IF FrontCounted > 0
    THEN [count |-> CountedBefore,
          resetTime |-> IF WindowElapsed THEN gate.now + RateWindow
                        ELSE gate.before.resetTime]
    ELSE gate.before

\* C40: evaluating an envelope that the source allow-list or the freshness
\* check rejects, or any envelope while the gateway is inactive, leaves the
\* rate counter and the window reset time unchanged.
C40_RejectedLeaveTracker ==
    Received /\ gate.evaluated
             /\ (~gate.helm.active \/ FailsCheck("source") \/ FailsCheck("freshness"))
      => gate.after = TrackerLeftByFront

\* a stale envelope from an allowed source, alone in the file, evaluated
\* after the rate window has run out: the window is not renewed
C40_Witness ==
    /\ Received /\ gate.evaluated
    /\ gate.helm.active /\ gate.front = 0
    /\ ~FailsCheck("source") /\ FailsCheck("freshness")
    /\ WindowElapsed
    /\ gate.after = gate.before

\* the same while the gateway is switched off
C40_InactiveWitness ==
    /\ Received /\ gate.evaluated
    /\ ~gate.helm.active
    /\ gate.after = gate.before

====
